---- MODULE Spec2Model ----
(***************************************************************************)
(* A model of flowfund: the recurrence resolver (utils/formatters.ts), the *)
(* occurrence expanders (hooks/useAllocation.ts, pages/OutgoingsPage.tsx,  *)
(* components/Layout/Sidebar.tsx, pages/AllocationPage.tsx), the greedy    *)
(* allocation run (hooks/useAllocation.ts) and the application state of    *)
(* context/AppContext.tsx.                                                 *)
(*                                                                         *)
(* Conventions.                                                            *)
(*  - A date is the number of whole days since 1 January BaseYear.  The    *)
(*    host time zone is taken to be UTC and stored date strings are        *)
(*    date-only, so every Date the code builds is a midnight and the       *)
(*    code's millisecond comparisons are comparisons of day numbers.       *)
(*  - NaNDate is JavaScript's Invalid Date: every comparison with it is    *)
(*    false and every setter applied to it leaves it invalid.              *)
(*  - Money is a whole number of cents; the code's double arithmetic is    *)
(*    taken to be exact on cents.                                          *)
(*  - A loop of the code whose body changes nothing while its condition    *)
(*    stays true never returns; the function's result is then Hang (for a  *)
(*    date) or a record with hang = TRUE (for a list or an amount).        *)
(*  - JavaScript's undefined is 0 for recurrenceInterval, "undefined" for  *)
(*    recurrenceUnit and NoAmount for installmentAmount.                   *)
(***************************************************************************)
EXTENDS Integers, Sequences, FiniteSets, TLC

\* ------------------------------------------------------------ calendar --

BaseYear == 2023

NaNDate == -2

Hang == -1

NoAmount == -1

IsLeap(y) == (y % 4 = 0 /\ y % 100 # 0) \/ y % 400 = 0

DaysInYear(y) == IF IsLeap(y) THEN 366 ELSE 365

\* m is a JavaScript month, 0..11
DaysInMonth(y, m) ==
  IF m = 1 THEN (IF IsLeap(y) THEN 29 ELSE 28)
  ELSE IF m \in {3, 5, 8, 10} THEN 30 ELSE 31

RECURSIVE DaysBeforeMonth(_, _)
DaysBeforeMonth(y, m) ==
  IF m = 0 THEN 0 ELSE DaysBeforeMonth(y, m - 1) + DaysInMonth(y, m - 1)

RECURSIVE DaysBeforeYear(_)
DaysBeforeYear(y) ==
  IF y <= BaseYear THEN 0 ELSE DaysBeforeYear(y - 1) + DaysInYear(y - 1)

\* new Date(y, m, d): a month outside 0..11 carries into the year and a day
\* outside the month carries into the following (or preceding) months.
MakeDate(y, m, d) ==
  LET yy == y + (m \div 12)
      mm == m % 12
  IN  DaysBeforeYear(yy) + DaysBeforeMonth(yy, mm) + (d - 1)

RECURSIVE YearFrom(_, _)
YearFrom(n, y) == IF n < DaysBeforeYear(y + 1) THEN y ELSE YearFrom(n, y + 1)

getFullYear(n) == YearFrom(n, BaseYear)

RECURSIVE MonthFrom(_, _, _)
MonthFrom(r, y, m) ==
  IF r < DaysInMonth(y, m) THEN m ELSE MonthFrom(r - DaysInMonth(y, m), y, m + 1)

getMonth(n) == MonthFrom(n - DaysBeforeYear(getFullYear(n)), getFullYear(n), 0)

getDate(n) ==
  n - DaysBeforeYear(getFullYear(n)) - DaysBeforeMonth(getFullYear(n), getMonth(n)) + 1

\* d.setDate(d.getDate() + k)
AddDays(d, k) == IF d < 0 THEN d ELSE d + k

\* d.setMonth(d.getMonth() + k): the day of the month is kept and overflows
\* into the next month when the target month is shorter.
AddMonths(d, k) ==
  IF d < 0 THEN d ELSE MakeDate(getFullYear(d), getMonth(d) + k, getDate(d))

\* d.setFullYear(d.getFullYear() + k)
AddYears(d, k) ==
  IF d < 0 THEN d ELSE MakeDate(getFullYear(d) + k, getMonth(d), getDate(d))

\* The relational operators on Dates: false as soon as one side is invalid.
DLt(a, b) == a >= 0 /\ b >= 0 /\ a < b
DLe(a, b) == a >= 0 /\ b >= 0 /\ a <= b
DGt(a, b) == a >= 0 /\ b >= 0 /\ a > b
DGe(a, b) == a >= 0 /\ b >= 0 /\ a >= b

\* A civil date with a month 1..12, for readable constants.
Ymd(y, m, d) == MakeDate(y, m - 1, d)

\* ------------------------------------------------- recurrence resolver --

\* The body of the custom switch of getNextOccurrence and of the expanders.
StepCustom(d, recurrenceInterval, recurrenceUnit) ==
  CASE recurrenceUnit = "day" -> AddDays(d, recurrenceInterval)
    [] recurrenceUnit = "week" -> AddDays(d, 7 * recurrenceInterval)
    [] recurrenceUnit = "month" -> AddMonths(d, recurrenceInterval)
    [] recurrenceUnit = "year" -> AddYears(d, recurrenceInterval)
    [] OTHER -> d

\* The body of the named switch of getNextOccurrence.
StepNamed(d, recurrence) ==
  CASE recurrence = "daily" -> AddDays(d, 1)
    [] recurrence = "weekly" -> AddDays(d, 7)
    [] recurrence = "biweekly" -> AddDays(d, 14)
    [] recurrence = "monthly" -> AddMonths(d, 1)
    [] recurrence = "quarterly" -> AddMonths(d, 3)
    [] recurrence = "yearly" -> AddYears(d, 1)
    [] OTHER -> d

RECURSIVE RollCustom(_, _, _, _)
RollCustom(nextDate, now, recurrenceInterval, recurrenceUnit) ==
  CASE ~DLt(nextDate, now) -> nextDate
    [] StepCustom(nextDate, recurrenceInterval, recurrenceUnit) = nextDate -> Hang
    [] OTHER -> RollCustom(StepCustom(nextDate, recurrenceInterval, recurrenceUnit),
                           now, recurrenceInterval, recurrenceUnit)

\* A named loop that also steps past a cadence date that is today.
RECURSIVE RollNamedPastToday(_, _, _)
RollNamedPastToday(nextDate, now, recurrence) ==
  CASE ~DLe(nextDate, now) -> nextDate
    [] StepNamed(nextDate, recurrence) = nextDate -> Hang
    [] OTHER -> RollNamedPastToday(StepNamed(nextDate, recurrence), now, recurrence)

RECURSIVE RollNamed(_, _, _)
RollNamed(nextDate, now, recurrence) ==
  CASE ~DLt(nextDate, now) -> nextDate
    [] StepNamed(nextDate, recurrence) = nextDate -> Hang
    [] OTHER -> RollNamed(StepNamed(nextDate, recurrence), now, recurrence)

\* A resolver that hands the date back without rolling it forward.
getNextOccurrenceUnrolled(date, recurrence, recurrenceInterval, recurrenceUnit, now) ==
  date

\* A resolver that rolls a past date forward whatever its recurrence.
getNextOccurrenceRolled(date, recurrence, recurrenceInterval, recurrenceUnit, now) ==
  IF DGe(date, now) THEN date
  ELSE IF recurrenceInterval # 0 /\ recurrenceUnit # "undefined"
       THEN RollCustom(date, now, recurrenceInterval, recurrenceUnit)
  ELSE RollNamed(date, now, IF recurrence = "none" THEN "monthly" ELSE recurrence)

\* getNextOccurrence(date, recurrence, recurrenceInterval?, recurrenceUnit?)
\* with the clock reading `now` made a parameter.
getNextOccurrence(date, recurrence, recurrenceInterval, recurrenceUnit, now) ==
  IF DGe(date, now) THEN date
  ELSE IF recurrence = "none" /\ recurrenceInterval = 0 THEN date
  ELSE IF recurrenceInterval # 0 /\ recurrenceUnit # "undefined"
       THEN RollCustom(date, now, recurrenceInterval, recurrenceUnit)
  ELSE RollNamed(date, now, recurrence)

\* ------------------------------------------------- occurrence records --

\* One emitted occurrence.  The code pushes a copy of the outgoing; the model
\* keeps what the consumers read: the amount, the date the loop stood at when
\* it pushed, and, for an installment, its number and the schedule's length
\* (both 0 otherwise).
Occ(date, amount, installmentNumber, totalInstallments) ==
  [date |-> date, amount |-> amount,
   installmentNumber |-> installmentNumber,
   totalInstallments |-> totalInstallments]

Done(occurrences) == [hang |-> FALSE, occ |-> occurrences]

Never == [hang |-> TRUE, occ |-> <<>>]

Amount(total) == [hang |-> FALSE, amount |-> total]

NeverAmount == [hang |-> TRUE, amount |-> 0]

RECURSIVE SumAmounts(_)
SumAmounts(s) == IF s = <<>> THEN 0 ELSE Head(s).amount + SumAmounts(Tail(s))

\* Math.floor in the place of Math.ceil.
FloorDiv(a, n) == a \div n

\* Math.ceil((amount / n) * 100) / 100 on cents
CeilDiv(a, n) == (a + n - 1) \div n

IsCustom(outgoing) ==
  outgoing.isCustomRecurrence /\ outgoing.recurrenceInterval # 0
    /\ outgoing.recurrenceUnit # "undefined"

\* ---------------------------------------------------- payment plans ----

\* The frequency switch of the installment loops.
StepPlan(d, frequency) ==
  CASE frequency = "weekly" -> AddDays(d, 7)
    [] frequency = "biweekly" -> AddDays(d, 14)
    [] frequency = "monthly" -> AddMonths(d, 1)
    [] OTHER -> d

\* "First count total installments": the number of loop turns, or Hang.
RECURSIVE CountInstallments(_, _, _, _)
CountInstallments(currentDate, dueDate, frequency, totalInstallments) ==
  IF ~DLt(currentDate, dueDate) THEN totalInstallments
  ELSE LET n == StepPlan(currentDate, frequency)
       IN  IF n = currentDate THEN Hang
           ELSE CountInstallments(n, dueDate, frequency, totalInstallments + 1)

InstallmentAmount(outgoing, totalInstallments) ==
  IF outgoing.paymentPlan.installmentAmount # NoAmount
  THEN outgoing.paymentPlan.installmentAmount
  ELSE IF totalInstallments > 0
       THEN CeilDiv(outgoing.amount, totalInstallments)
       ELSE outgoing.amount

\* An installment loop that numbers an installment by its place in the window.
RECURSIVE PlanWalkByPosition(_, _, _, _, _, _, _, _)
PlanWalkByPosition(outgoing, currentDate, installmentNumber, totalInstallments, installmentAmount, startDate, endDate, occurrences) ==
  CASE ~DLt(currentDate, outgoing.dueDate) -> Done(occurrences)
    [] StepPlan(currentDate, outgoing.paymentPlan.frequency) = currentDate -> Never
    [] OTHER ->
         PlanWalkByPosition(outgoing,
           StepPlan(currentDate, outgoing.paymentPlan.frequency),
           installmentNumber + 1, totalInstallments, installmentAmount,
           startDate, endDate,
           IF DGe(currentDate, startDate) /\ DLe(currentDate, endDate)
           THEN Append(occurrences,
                       Occ(currentDate, installmentAmount,
                           Len(occurrences) + 1, totalInstallments))
           ELSE occurrences)

\* "Add installments within the pay period"
RECURSIVE PlanWalk(_, _, _, _, _, _, _, _)
PlanWalk(outgoing, currentDate, installmentNumber, totalInstallments, installmentAmount, startDate, endDate, occurrences) ==
  IF ~DLt(currentDate, outgoing.dueDate) THEN Done(occurrences)
  ELSE LET occ1 == IF DGe(currentDate, startDate) /\ DLe(currentDate, endDate)
                   THEN Append(occurrences,
                               Occ(currentDate, installmentAmount,
                                   installmentNumber, totalInstallments))
                   ELSE occurrences
           n == StepPlan(currentDate, outgoing.paymentPlan.frequency)
       IN  IF n = currentDate THEN Never
           ELSE PlanWalk(outgoing, n, installmentNumber + 1, totalInstallments,
                         installmentAmount, startDate, endDate, occ1)

\* The payment-plan branch of useAllocation's expander.
HookPlan(outgoing, startDate, endDate) ==
  LET planStartDate == outgoing.paymentPlan.startDate
      dueDate == outgoing.dueDate
  IN  IF planStartDate = NaNDate \/ dueDate = NaNDate \/ DGe(planStartDate, dueDate)
      THEN Done(<<>>)
      ELSE LET totalInstallments ==
                 CountInstallments(planStartDate, dueDate,
                                   outgoing.paymentPlan.frequency, 0)
           IN  IF totalInstallments = Hang THEN Never
               ELSE PlanWalk(outgoing, planStartDate, 1, totalInstallments,
                             InstallmentAmount(outgoing, totalInstallments),
                             startDate, endDate, <<>>)

\* ------------------------------------ useAllocation's expander (hook) ---

\* The cadence switch of the AllocationPage loops: no custom and no daily arm.
StepRecurrence(d, recurrence) ==
  CASE recurrence = "weekly" -> AddDays(d, 7)
    [] recurrence = "biweekly" -> AddDays(d, 14)
    [] recurrence = "monthly" -> AddMonths(d, 1)
    [] recurrence = "quarterly" -> AddMonths(d, 3)
    [] recurrence = "yearly" -> AddYears(d, 1)
    [] OTHER -> d

\* "Move to next occurrence based on recurrence type"
StepOccurrence(outgoing, d) ==
  IF IsCustom(outgoing)
  THEN StepCustom(d, outgoing.recurrenceInterval, outgoing.recurrenceUnit)
  ELSE StepRecurrence(d, outgoing.recurrence)

\* A push that does not look at the end of the period.
HookPushAlways(outgoing, currentDate, endDate, occurrences) ==
  Append(occurrences, Occ(currentDate, outgoing.amount, 0, 0))

\* The push at the head of a turn of the second loop.
HookPush(outgoing, currentDate, endDate, occurrences) ==
  IF DLe(currentDate, endDate)
  THEN Append(occurrences, Occ(currentDate, outgoing.amount, 0, 0))
  ELSE occurrences

\* The nextDate of a turn of the second loop, for the cadences that have one.
HookNextDate(outgoing, currentDate) ==
  IF IsCustom(outgoing)
  THEN StepCustom(currentDate, outgoing.recurrenceInterval, outgoing.recurrenceUnit)
  ELSE IF outgoing.recurrence = "weekly" THEN AddDays(currentDate, 7)
  ELSE AddDays(currentDate, 14)

\* Whether the turn ends in `currentDate = nextDate` rather than in a break:
\* custom, weekly and biweekly cadences whose nextDate is inside the period.
HookGoesOn(outgoing, currentDate, endDate) ==
  /\ IsCustom(outgoing) \/ outgoing.recurrence \in {"weekly", "biweekly"}
  /\ DLe(HookNextDate(outgoing, currentDate), endDate)

\* "Now add all occurrences that fall within the pay period"
RECURSIVE HookAdd(_, _, _, _)
HookAdd(outgoing, currentDate, endDate, occurrences) ==
  CASE ~HookGoesOn(outgoing, currentDate, endDate) ->
         Done(HookPush(outgoing, currentDate, endDate, occurrences))
    [] HookNextDate(outgoing, currentDate) = currentDate -> Never
    [] OTHER -> HookAdd(outgoing, HookNextDate(outgoing, currentDate), endDate,
                        HookPush(outgoing, currentDate, endDate, occurrences))

\* "Find the first occurrence that falls after the start date", with the
\* safety check that leaves with an empty list.
RECURSIVE HookSkip(_, _, _, _)
HookSkip(outgoing, currentDate, startDate, endDate) ==
  CASE ~DLt(currentDate, startDate) -> HookAdd(outgoing, currentDate, endDate, <<>>)
    [] DGt(StepOccurrence(outgoing, currentDate), endDate) -> Done(<<>>)
    [] StepOccurrence(outgoing, currentDate) = currentDate -> Never
    [] OTHER -> HookSkip(outgoing, StepOccurrence(outgoing, currentDate),
                         startDate, endDate)

\* useAllocation.getOutgoingOccurrencesInPayPeriod(outgoing, startDate, endDate)
getOutgoingOccurrencesInPayPeriod(outgoing, startDate, endDate, now) ==
  IF outgoing.isPaused THEN Done(<<>>)
  ELSE IF outgoing.paymentPlan.enabled THEN HookPlan(outgoing, startDate, endDate)
  ELSE IF outgoing.recurrence = "none" /\ ~outgoing.isCustomRecurrence
  THEN LET nextDate == getNextOccurrence(outgoing.dueDate, outgoing.recurrence,
                                         0, "undefined", now)
       IN  IF DGe(nextDate, startDate) /\ DLe(nextDate, endDate)
           THEN Done(<<Occ(nextDate, outgoing.amount, 0, 0)>>)
           ELSE Done(<<>>)
  ELSE LET currentDate ==
             getNextOccurrence(outgoing.dueDate, outgoing.recurrence,
               IF outgoing.isCustomRecurrence THEN outgoing.recurrenceInterval ELSE 0,
               IF outgoing.isCustomRecurrence THEN outgoing.recurrenceUnit
                                              ELSE "undefined",
               now)
       IN  IF currentDate = Hang THEN Never
           ELSE IF DGt(currentDate, endDate) THEN Done(<<>>)
           ELSE HookSkip(outgoing, currentDate, startDate, endDate)

\* ----------------------------------------- OutgoingsPage's expander ----

\* OutgoingsPage.getPaymentPlanInstallments, its getPayPeriod() window passed
\* in as startDate and endDate.
getPaymentPlanInstallments(outgoing, startDate, endDate) ==
  IF ~outgoing.paymentPlan.enabled THEN Done(<<>>)
  ELSE LET planStart == outgoing.paymentPlan.startDate
           dueDate == outgoing.dueDate
       IN  IF planStart = NaNDate \/ dueDate = NaNDate \/ DGe(planStart, dueDate)
           THEN Done(<<>>)
           ELSE LET totalInstallments ==
                      CountInstallments(planStart, dueDate,
                                        outgoing.paymentPlan.frequency, 0)
                IN  IF totalInstallments = Hang THEN Never
                    ELSE PlanWalk(outgoing, planStart, 1, totalInstallments,
                                  InstallmentAmount(outgoing, totalInstallments),
                                  startDate, endDate, <<>>)

\* The page's second loop replaced by the hook's.
PageAddAsHook(outgoing, currentDate, endDate, occurrences) ==
  HookAdd(outgoing, currentDate, endDate, occurrences)

\* The page's second loop: it pushes the current date unconditionally and
\* goes on only for weekly, biweekly and custom weeks of interval <= 2.
RECURSIVE PageAdd(_, _, _, _)
PageAdd(outgoing, currentDate, endDate, occurrences) ==
  LET occ1 == Append(occurrences, Occ(currentDate, outgoing.amount, 0, 0))
  IN  IF outgoing.recurrence = "weekly" \/ outgoing.recurrence = "biweekly"
         \/ (outgoing.isCustomRecurrence /\ outgoing.recurrenceUnit = "week"
             /\ outgoing.recurrenceInterval # 0 /\ outgoing.recurrenceInterval <= 2)
      THEN LET nextDate ==
                 IF outgoing.isCustomRecurrence /\ outgoing.recurrenceInterval # 0
                    /\ outgoing.recurrenceUnit = "week"
                 THEN AddDays(currentDate, 7 * outgoing.recurrenceInterval)
                 ELSE IF outgoing.recurrence = "weekly"
                 THEN AddDays(currentDate, 7)
                 ELSE AddDays(currentDate, 14)
           IN  IF DLe(nextDate, endDate)
               THEN PageAdd(outgoing, nextDate, endDate, occ1)
               ELSE Done(occ1)
      ELSE Done(occ1)

\* The page's first loop: no safety check against the end date.
RECURSIVE PageSkip(_, _, _, _)
PageSkip(outgoing, currentDate, startDate, endDate) ==
  CASE ~DLt(currentDate, startDate) -> PageAdd(outgoing, currentDate, endDate, <<>>)
    [] StepOccurrence(outgoing, currentDate) = currentDate -> Never
    [] OTHER -> PageSkip(outgoing, StepOccurrence(outgoing, currentDate),
                         startDate, endDate)

\* The page's expander replaced by the hook's.
OutgoingsPage_expandAsHook(outgoing, startDate, endDate, now) ==
  getOutgoingOccurrencesInPayPeriod(outgoing, startDate, endDate, now)

\* OutgoingsPage.getOutgoingOccurrencesInPayPeriod(outgoing)
OutgoingsPage_getOutgoingOccurrencesInPayPeriod(outgoing, startDate, endDate, now) ==
  IF outgoing.isPaused THEN Done(<<>>)
  ELSE IF outgoing.paymentPlan.enabled
  THEN getPaymentPlanInstallments(outgoing, startDate, endDate)
  ELSE IF outgoing.recurrence = "none" /\ ~outgoing.isCustomRecurrence
  THEN LET nextDate == getNextOccurrence(outgoing.dueDate, outgoing.recurrence,
                                         0, "undefined", now)
       IN  IF DGe(nextDate, startDate)
           THEN Done(<<Occ(nextDate, outgoing.amount, 0, 0)>>)
           ELSE Done(<<>>)
  ELSE LET currentDate ==
             getNextOccurrence(outgoing.dueDate, outgoing.recurrence,
               IF outgoing.isCustomRecurrence THEN outgoing.recurrenceInterval ELSE 0,
               IF outgoing.isCustomRecurrence THEN outgoing.recurrenceUnit
                                              ELSE "undefined",
               now)
       IN  IF currentDate = Hang THEN Never
           ELSE IF DGt(currentDate, endDate)
           THEN Done(<<Occ(currentDate, outgoing.amount, 0, 0)>>)
           ELSE PageSkip(outgoing, currentDate, startDate, endDate)

\* payPeriodOccurrences: the timeline's filter, whose end is exclusive.
payPeriodOccurrences(occurrences, startDate, endDate) ==
  SelectSeq(occurrences, LAMBDA o : DGe(o.date, startDate) /\ DLt(o.date, endDate))

\* ------------------------------------------- Sidebar's required sum ----

\* The sidebar's installment loop: it adds the installment amount of every
\* installment date inside the pay period.
RECURSIVE SidebarPlanWalk(_, _, _, _, _, _)
SidebarPlanWalk(outgoing, currentDate, installmentAmount, startDate, endDate, totalAmount) ==
  IF ~DLt(currentDate, outgoing.dueDate) THEN Amount(totalAmount)
  ELSE LET t1 == IF DGe(currentDate, startDate) /\ DLe(currentDate, endDate)
                 THEN totalAmount + installmentAmount ELSE totalAmount
           n == StepPlan(currentDate, outgoing.paymentPlan.frequency)
       IN  IF n = currentDate THEN NeverAmount
           ELSE SidebarPlanWalk(outgoing, n, installmentAmount, startDate,
                                endDate, t1)

\* The sum at the head of a turn of the sidebar's second loop.
SidebarPush(outgoing, currentDate, endDate, totalAmount) ==
  IF DLe(currentDate, endDate) THEN totalAmount + outgoing.amount ELSE totalAmount

\* The nextDate of a turn of the sidebar's second loop.
SidebarNextDate(outgoing, currentDate) ==
  IF IsCustom(outgoing)
  THEN StepCustom(currentDate, outgoing.recurrenceInterval, outgoing.recurrenceUnit)
  ELSE IF outgoing.recurrence = "weekly" THEN AddDays(currentDate, 7)
  ELSE AddDays(currentDate, 14)

\* Whether the turn ends in `currentDate = nextDate` rather than in a break.
SidebarGoesOn(outgoing, currentDate, endDate) ==
  /\ IsCustom(outgoing) \/ outgoing.recurrence \in {"weekly", "biweekly"}
  /\ DLe(SidebarNextDate(outgoing, currentDate), endDate)

\* The sidebar's second loop: the hook's, summing instead of pushing.
RECURSIVE SidebarAdd(_, _, _, _)
SidebarAdd(outgoing, currentDate, endDate, totalAmount) ==
  CASE ~SidebarGoesOn(outgoing, currentDate, endDate) ->
         Amount(SidebarPush(outgoing, currentDate, endDate, totalAmount))
    [] SidebarNextDate(outgoing, currentDate) = currentDate -> NeverAmount
    [] OTHER -> SidebarAdd(outgoing, SidebarNextDate(outgoing, currentDate), endDate,
                           SidebarPush(outgoing, currentDate, endDate, totalAmount))

\* The sidebar's first loop, with the hook's safety check.
RECURSIVE SidebarSkip(_, _, _, _)
SidebarSkip(outgoing, currentDate, startDate, endDate) ==
  CASE ~DLt(currentDate, startDate) -> SidebarAdd(outgoing, currentDate, endDate, 0)
    [] DGt(StepOccurrence(outgoing, currentDate), endDate) -> Amount(0)
    [] StepOccurrence(outgoing, currentDate) = currentDate -> NeverAmount
    [] OTHER -> SidebarSkip(outgoing, StepOccurrence(outgoing, currentDate),
                            startDate, endDate)

\* Sidebar: requiredForPayPeriod's getOutgoingOccurrencesInPayPeriod(outgoing)
Sidebar_getOutgoingOccurrencesInPayPeriod(outgoing, startDate, endDate, now) ==
  IF outgoing.isPaused THEN Amount(0)
  ELSE IF outgoing.paymentPlan.enabled
  THEN LET planStartDate == outgoing.paymentPlan.startDate
           dueDate == outgoing.dueDate
       IN  IF planStartDate = NaNDate \/ dueDate = NaNDate
              \/ DGe(planStartDate, dueDate)
           THEN Amount(0)
           ELSE LET totalInstallments ==
                      CountInstallments(planStartDate, dueDate,
                                        outgoing.paymentPlan.frequency, 0)
                IN  IF totalInstallments = Hang THEN NeverAmount
                    ELSE SidebarPlanWalk(outgoing, planStartDate,
                           InstallmentAmount(outgoing, totalInstallments),
                           startDate, endDate, 0)
  ELSE IF outgoing.recurrence = "none" /\ ~outgoing.isCustomRecurrence
  THEN LET nextDate == getNextOccurrence(outgoing.dueDate, outgoing.recurrence,
                                         0, "undefined", now)
       IN  IF DGe(nextDate, startDate) /\ DLe(nextDate, endDate)
           THEN Amount(outgoing.amount) ELSE Amount(0)
  ELSE LET currentDate ==
             getNextOccurrence(outgoing.dueDate, outgoing.recurrence,
               IF outgoing.isCustomRecurrence THEN outgoing.recurrenceInterval ELSE 0,
               IF outgoing.isCustomRecurrence THEN outgoing.recurrenceUnit
                                              ELSE "undefined",
               now)
       IN  IF currentDate = Hang THEN NeverAmount
           ELSE IF DGt(currentDate, endDate) THEN Amount(0)
           ELSE SidebarSkip(outgoing, currentDate, startDate, endDate)

\* outgoings.reduce((total, outgoing) => total + f(outgoing), 0), given the
\* sequence of the values f(outgoing), each of which may never have returned.
RECURSIVE ReduceAmounts(_, _)
ReduceAmounts(results, total) ==
  IF results = <<>> THEN Amount(total)
  ELSE IF Head(results).hang THEN NeverAmount
  ELSE ReduceAmounts(Tail(results), total + Head(results).amount)

\* Sidebar: requiredForPayPeriod
requiredForPayPeriod(outgoingList, startDate, endDate, now) ==
  LET f(o) == Sidebar_getOutgoingOccurrencesInPayPeriod(o, startDate, endDate, now)
  IN  (LET list == outgoingList IN ReduceAmounts([i \in 1..Len(list) |-> f(list[i])], 0))

\* ------------------------------------- AllocationPage's required sums ---

\* AllocationPage, totalRequiredForPayPeriod: the loops know neither the
\* pause flag, nor payment plans, nor custom recurrences.
RECURSIVE AllocationPageAdd(_, _, _, _)
AllocationPageAdd(outgoing, currentDate, endDate, totalAmount) ==
  LET t1 == IF DLe(currentDate, endDate) THEN totalAmount + outgoing.amount
            ELSE totalAmount
  IN  IF outgoing.recurrence \in {"weekly", "biweekly"}
      THEN LET nextDate == IF outgoing.recurrence = "weekly"
                           THEN AddDays(currentDate, 7)
                           ELSE AddDays(currentDate, 14)
           IN  IF DLe(nextDate, endDate)
               THEN AllocationPageAdd(outgoing, nextDate, endDate, t1)
               ELSE Amount(t1)
      ELSE Amount(t1)

RECURSIVE AllocationPageSkip(_, _, _, _)
AllocationPageSkip(outgoing, currentDate, startDate, endDate) ==
  IF ~DLt(currentDate, startDate)
  THEN AllocationPageAdd(outgoing, currentDate, endDate, 0)
  ELSE LET n == StepRecurrence(currentDate, outgoing.recurrence)
       IN  IF n = currentDate THEN NeverAmount
           ELSE AllocationPageSkip(outgoing, n, startDate, endDate)

\* AllocationPage: totalRequiredForPayPeriod's
\* getOutgoingOccurrencesInPayPeriod(outgoing)
AllocationPage_getOutgoingOccurrencesInPayPeriod(outgoing, startDate, endDate, now) ==
  IF outgoing.recurrence = "none"
  THEN LET nextDate == getNextOccurrence(outgoing.dueDate, outgoing.recurrence,
                                         0, "undefined", now)
       IN  IF DGe(nextDate, startDate) /\ DLe(nextDate, endDate)
           THEN Amount(outgoing.amount) ELSE Amount(0)
  ELSE LET currentDate == getNextOccurrence(outgoing.dueDate, outgoing.recurrence,
                                            0, "undefined", now)
       IN  IF currentDate = Hang THEN NeverAmount
           ELSE AllocationPageSkip(outgoing, currentDate, startDate, endDate)

\* AllocationPage: totalRequiredForPayPeriod
totalRequiredForPayPeriod(outgoingList, startDate, endDate, now) ==
  LET f(o) == AllocationPage_getOutgoingOccurrencesInPayPeriod(o, startDate,
                                                               endDate, now)
  IN  (LET list == outgoingList IN ReduceAmounts([i \in 1..Len(list) |-> f(list[i])], 0))

\* getOutgoingsForAccount(accountId)
getOutgoingsForAccount(outgoingList, accountId) ==
  SelectSeq(outgoingList, LAMBDA o : o.accountId = accountId)

\* AllocationPage: getOutgoingsForPayPeriod(accountId), read through the sum of
\* the amounts of the list it returns (the account's "needed" figure).  Its
\* inner expander is the same text as totalRequiredForPayPeriod's.
getOutgoingsForPayPeriod(outgoingList, accountId, startDate, endDate, now) ==
  LET f(o) == AllocationPage_getOutgoingOccurrencesInPayPeriod(o, startDate,
                                                               endDate, now)
  IN  (LET list == getOutgoingsForAccount(outgoingList, accountId) IN ReduceAmounts([i \in 1..Len(list) |-> f(list[i])], 0))

\* AppContext: totalRequired
totalRequired(outgoingList) ==
  LET f(o) == Amount(o.amount) IN (LET list == outgoingList IN ReduceAmounts([i \in 1..Len(list) |-> f(list[i])], 0)).amount

\* --------------------------------------------------------- pay period --

\* payCycle.lastPayDate when it is unset (undefined or '').
NoDate == -3

\* A period that runs up to the next payday itself.
PeriodToNextPayday(startDate, endDate) ==
  [startDate |-> startDate, endDate |-> endDate + 1]

Period(startDate, endDate) == [startDate |-> startDate, endDate |-> endDate]

RECURSIVE NextPayAfter(_, _, _)
NextPayAfter(nextPay, today, days) ==
  IF ~DLe(nextPay, today) THEN nextPay
  ELSE NextPayAfter(AddDays(nextPay, days), today, days)

\* AppContext.getPayPeriod(), with the clock reading `today` made a parameter.
getPayPeriod(payCycle, today) ==
  LET currentMonth == getMonth(today)
      currentYear == getFullYear(today)
  IN
  IF payCycle.frequency = "monthly"
  THEN LET thisMonthPayday == MakeDate(currentYear, currentMonth, payCycle.dayOfMonth)
       IN  IF thisMonthPayday > today
           THEN LET lastMonth == IF currentMonth = 0 THEN 11 ELSE currentMonth - 1
                    lastYear == IF currentMonth = 0 THEN currentYear - 1
                                ELSE currentYear
                IN  Period(MakeDate(lastYear, lastMonth, payCycle.dayOfMonth),
                           AddDays(thisMonthPayday, -1))
           ELSE LET nextMonth == IF currentMonth = 11 THEN 0 ELSE currentMonth + 1
                    nextYear == IF currentMonth = 11 THEN currentYear + 1
                                ELSE currentYear
                IN  Period(thisMonthPayday,
                           AddDays(MakeDate(nextYear, nextMonth, payCycle.dayOfMonth), -1))
  ELSE IF payCycle.frequency \in {"biweekly", "weekly"}
  THEN IF payCycle.lastPayDate = NoDate
       THEN LET defaultPayDate ==
                  MakeDate(currentYear, currentMonth, payCycle.dayOfMonth)
            IN  IF defaultPayDate > today
                THEN Period(MakeDate(currentYear, currentMonth - 1, payCycle.dayOfMonth),
                            AddDays(defaultPayDate, -1))
                ELSE Period(defaultPayDate,
                            AddDays(MakeDate(currentYear, currentMonth + 1,
                                             payCycle.dayOfMonth), -1))
       ELSE LET lastPay == payCycle.lastPayDate
                days == IF payCycle.frequency = "biweekly" THEN 14 ELSE 7
                nextPay == NextPayAfter(AddDays(lastPay, days), today, days)
            IN  Period(lastPay, AddDays(nextPay, -1))
  ELSE Period(MakeDate(currentYear, currentMonth, payCycle.dayOfMonth),
              AddDays(MakeDate(currentYear, currentMonth + 1, payCycle.dayOfMonth), -1))

\* ------------------------------------------------------------- state ---

VARIABLES
  accounts,      \* AppContext accounts: the account ids, in list order
  outgoings,     \* AppContext outgoings: the outgoing records, in list order
  fundSources,   \* AppContext fundSources: records [id, amount]
  allocations,   \* AppContext allocations: records [id, accountId, amount]
  payCycle,      \* AppContext payCycle
  today,         \* the clock: new Date()
  nextAccountId, \* the next crypto.randomUUID() handed to an account
  nextSourceId,  \* the next crypto.randomUUID() handed to a fund source
  runs,          \* completed allocation runs; the run number makes record ids
  lastRun,       \* history: inputs and result of the last completed run
  hung,          \* a handler entered a loop that never returns
  outgoing,      \* expander harness: the outgoing under expansion
  startDate,     \* expander harness: window start
  endDate,       \* expander harness: window end
  now,           \* expander harness: the clock
  phase,         \* expander harness: "idle", "input" or "done"
  hookOcc,       \* result of useAllocation's expander
  pageOcc,       \* result of OutgoingsPage's expander
  sidebarAmt,    \* result of the sidebar's requiredForPayPeriod
  allocPageAmt,  \* result of AllocationPage's totalRequiredForPayPeriod
  allocPageNeeded, \* result of AllocationPage's per-account needed figure
  contextRequired, \* result of AppContext's totalRequired
  nextOcc,     \* result of getNextOccurrence
  newSourceIds,  \* AllocationPage newSourceIds: ids of the rows shown as new
  manualAllocations, \* AllocationPage manualAllocations: accountId -> amount
  timer,         \* AllocationPage: the recompute effect has a timeout pending
  renderedSources \* the fundSources of the last render, which the handlers close over

appVars == <<accounts, outgoings, fundSources, allocations, payCycle, today,
             nextAccountId, nextSourceId, runs, lastRun, hung>>

expandVars == <<outgoing, startDate, endDate, now, phase, hookOcc, pageOcc,
                sidebarAmt, allocPageAmt, allocPageNeeded, contextRequired,
                nextOcc>>

pageVars == <<newSourceIds, manualAllocations, timer, renderedSources>>

vars == <<accounts, outgoings, fundSources, allocations, payCycle, today,
          nextAccountId, nextSourceId, runs, lastRun, hung,
          outgoing, startDate, endDate, now, phase, hookOcc, pageOcc,
          sidebarAmt, allocPageAmt, allocPageNeeded, contextRequired, nextOcc,
          newSourceIds, manualAllocations, timer, renderedSources>>


\* ---------------------------------------------------- allocation run ---

\* A Math.min that hands back its first argument.
MinFirst(a, b) == a

\* Math.min
Min(a, b) == IF a < b THEN a ELSE b

\* The number NaN among the amounts.
NaNAmount == -1000000

\* a + b, a - b and Math.max(a, b) on numbers: NaN as soon as one side is NaN.
NumAdd(a, b) == IF a = NaNAmount \/ b = NaNAmount THEN NaNAmount ELSE a + b

NumSub(a, b) == IF a = NaNAmount \/ b = NaNAmount THEN NaNAmount ELSE a - b

MathMax(a, b) ==
  IF a = NaNAmount \/ b = NaNAmount THEN NaNAmount ELSE IF a > b THEN a ELSE b

\* A reduce that leaves out the sources whose amount is not positive.
RECURSIVE SumPositiveSources(_)
SumPositiveSources(s) ==
  IF s = <<>> THEN 0
  ELSE IF Head(s).amount > 0
       THEN NumAdd(Head(s).amount, SumPositiveSources(Tail(s)))
       ELSE SumPositiveSources(Tail(s))

RECURSIVE SumSources(_)
SumSources(s) ==
  IF s = <<>> THEN 0 ELSE NumAdd(Head(s).amount, SumSources(Tail(s)))

\* AppContext: totalFunds
totalFunds == SumSources(fundSources)

\* AppContext: totalAllocated
totalAllocated == SumAmounts(allocations)

\* occurrences.reduce((sum, occurrence) => sum + occurrence.amount, 0)
OccurrenceTotal(result) == [hang |-> result.hang, amount |-> SumAmounts(result.occ)]

\* The account's need inside the run: the amounts of the hook expander's
\* occurrences of the account's outgoings, summed.
TotalNeeded(outgoingList, accountId, periodStart, periodEnd, clock) ==
  LET f(o) == OccurrenceTotal(getOutgoingOccurrencesInPayPeriod(o, periodStart,
                                                                periodEnd, clock))
  IN  (LET list == getOutgoingsForAccount(outgoingList, accountId) IN ReduceAmounts([i \in 1..Len(list) |-> f(list[i])], 0))

\* crypto.randomUUID() for the k-th allocation record of run number r: a value
\* no earlier call returned.
AllocationId(r, k) == r * 100 + k

\* "Simple sequential allocation": the for loop of updateFundsAndAllocations.
RECURSIVE AllocateLoop(_, _, _, _, _, _, _, _)

\* One turn of the loop once the account's totalNeeded is known: the record
\* pushed and the funds left for the accounts after it.
AllocateAccount(account, totalNeeded, accountList, outgoingList, periodStart, periodEnd, clock, remainingFunds, newAllocations, run) ==
  IF totalNeeded.hang THEN [hang |-> TRUE, allocations |-> <<>>]
  ELSE IF totalNeeded.amount > 0 /\ remainingFunds > 0
  THEN AllocateLoop(Tail(accountList), outgoingList, periodStart, periodEnd, clock,
                    remainingFunds - Min(totalNeeded.amount, remainingFunds),
                    Append(newAllocations,
                           [id |-> AllocationId(run, Len(newAllocations) + 1),
                            accountId |-> account,
                            amount |-> Min(totalNeeded.amount, remainingFunds)]),
                    run)
  ELSE AllocateLoop(Tail(accountList), outgoingList, periodStart, periodEnd, clock,
                    remainingFunds, newAllocations, run)

AllocateLoop(accountList, outgoingList, periodStart, periodEnd, clock, remainingFunds, newAllocations, run) ==
  IF accountList = <<>> THEN [hang |-> FALSE, allocations |-> newAllocations]
  ELSE AllocateAccount(Head(accountList),
                       TotalNeeded(outgoingList, Head(accountList), periodStart,
                                   periodEnd, clock),
                       accountList, outgoingList, periodStart, periodEnd, clock,
                       remainingFunds, newAllocations, run)

Reverse(s) == [i \in 1..Len(s) |-> s[Len(s) + 1 - i]]

\* A run that walks the accounts from the last to the first.
AllocateReversed(accountList, outgoingList, periodStart, periodEnd, clock, amount, run) ==
  IF amount <= 0 THEN [hang |-> FALSE, allocations |-> <<>>]
  ELSE AllocateLoop(Reverse(accountList), outgoingList, periodStart, periodEnd,
                    clock, amount, <<>>, run)

\* A run that treats what the stored allocations hold as already spent.
AllocateStale(accountList, outgoingList, periodStart, periodEnd, clock, amount, run) ==
  IF amount <= 0 THEN [hang |-> FALSE, allocations |-> <<>>]
  ELSE AllocateLoop(accountList, outgoingList, periodStart, periodEnd, clock,
                    amount - totalAllocated, <<>>, run)

\* A run that leaves the stored allocations behind when it has nothing to give.
AllocateKeep(accountList, outgoingList, periodStart, periodEnd, clock, amount, run) ==
  IF amount <= 0 \/ accountList = <<>>
  THEN [hang |-> FALSE, allocations |-> allocations]
  ELSE AllocateLoop(accountList, outgoingList, periodStart, periodEnd, clock,
                    amount, <<>>, run)

\* The list updateFundsAndAllocations hands to updateAllocations: empty for a
\* non-positive amount, the loop's list otherwise.
Allocate(accountList, outgoingList, periodStart, periodEnd, clock, amount, run) ==
  IF amount <= 0 THEN [hang |-> FALSE, allocations |-> <<>>]
  ELSE AllocateLoop(accountList, outgoingList, periodStart, periodEnd, clock,
                    amount, <<>>, run)

\* AppContext.updateAvailableFunds(amount): the new fundSources.
updateAvailableFunds(amount) ==
  IF Len(fundSources) = 0
  THEN <<[id |-> nextSourceId, amount |-> amount]>>
  ELSE IF Len(fundSources) = 1
  THEN <<[fundSources[1] EXCEPT !.amount = amount]>>
  ELSE LET currentTotal == SumSources(fundSources)
           firstSourceAmount == fundSources[1].amount
           adjustment == NumSub(amount, currentTotal)
           newAmount == MathMax(0, NumAdd(firstSourceAmount, adjustment))
       IN  <<[fundSources[1] EXCEPT !.amount = newAmount]>> \o Tail(fundSources)

\* ------------------------------------------------------------ bounds ---

MaxAccounts == 2

MaxAccountId == 2

MaxOutgoings == 2

MaxSources == 1

MaxSourceId == 1

MaxRuns == 2

\* ------------------------------------------------- application inputs ---

NoPlan ==
  [enabled |-> FALSE, startDate |-> NoDate, frequency |-> "monthly",
   installmentAmount |-> NoAmount]

Plan(planStart, frequency, installmentAmount) ==
  [enabled |-> TRUE, startDate |-> planStart, frequency |-> frequency,
   installmentAmount |-> installmentAmount]

\* What OutgoingForm's submit stores for the recurrence of a custom outgoing.
FormRecurrence(recurrenceInterval, recurrenceUnit) ==
  IF recurrenceUnit = "week" /\ recurrenceInterval = 1 THEN "weekly"
  ELSE IF recurrenceUnit = "month" /\ recurrenceInterval = 1 THEN "monthly"
  ELSE IF recurrenceUnit = "week" /\ recurrenceInterval = 2 THEN "biweekly"
  ELSE IF recurrenceUnit = "month" /\ recurrenceInterval = 3 THEN "quarterly"
  ELSE IF recurrenceUnit = "year" /\ recurrenceInterval = 1 THEN "yearly"
  ELSE "monthly"

Named(id, amount, dueDate, recurrence, isPaused, paymentPlan) ==
  [id |-> id, accountId |-> 0, amount |-> amount, dueDate |-> dueDate,
   recurrence |-> recurrence, isCustomRecurrence |-> FALSE,
   recurrenceInterval |-> 0, recurrenceUnit |-> "undefined",
   isPaused |-> isPaused, paymentPlan |-> paymentPlan]

Custom(id, amount, dueDate, recurrenceInterval, recurrenceUnit, isPaused) ==
  [id |-> id, accountId |-> 0, amount |-> amount, dueDate |-> dueDate,
   recurrence |-> FormRecurrence(recurrenceInterval, recurrenceUnit),
   isCustomRecurrence |-> TRUE,
   recurrenceInterval |-> recurrenceInterval, recurrenceUnit |-> recurrenceUnit,
   isPaused |-> isPaused, paymentPlan |-> NoPlan]

\* The outgoings the user can enter in the application model.
Templates ==
  << Named(1, 2000, Ymd(2024, 1, 1), "weekly", FALSE, NoPlan),
     Named(2, 5000, Ymd(2024, 1, 20), "none", FALSE, NoPlan),
     Named(3, 3000, Ymd(2024, 1, 20), "monthly", TRUE, NoPlan),
     Named(4, 10000, Ymd(2024, 4, 1), "none", FALSE,
           Plan(Ymd(2024, 1, 1), "monthly", NoAmount)),
     Custom(5, 1000, Ymd(2024, 1, 5), 10, "day", FALSE) >>

\* The amounts the user types into a fund source.
SourceAmounts == {3000, 9000}

\* The amounts updateFundsAndAllocations is called with from outside the page.
RunAmounts == {-500, 2500}

Today0 == Ymd(2024, 1, 15)

DefaultPayCycle == [dayOfMonth |-> 28, frequency |-> "monthly", lastPayDate |-> NoDate]

\* History of the allocation runs: whether the last step was a completed run,
\* its amount, whether the step before it was a completed run of the same
\* amount, and the allocations it replaced.
NoRun == [valid |-> FALSE, amount |-> 0, again |-> FALSE, before |-> <<>>]

EmptyOutgoing == Named(0, 0, 0, "none", FALSE, NoPlan)

\* The expander harness before any call has returned.
NoResults ==
  /\ hookOcc = Done(<<>>)
  /\ pageOcc = Done(<<>>)
  /\ sidebarAmt = Amount(0)
  /\ allocPageAmt = Amount(0)
  /\ allocPageNeeded = Amount(0)
  /\ contextRequired = 0
  /\ nextOcc = 0

\* manualAllocations = {}
NoManual == [a \in {} |-> 0]

\* AllocationPage before its first render.
PageIdle ==
  /\ newSourceIds = <<>>
  /\ manualAllocations = NoManual
  /\ timer = FALSE
  /\ renderedSources = <<>>

\* AppProvider's initial state with an empty localStorage.
AppInit ==
  /\ PageIdle
  /\ accounts = <<>>
  /\ outgoings = <<>>
  /\ fundSources = <<>>
  /\ allocations = <<>>
  /\ payCycle = DefaultPayCycle
  /\ today = Today0
  /\ nextAccountId = 1
  /\ nextSourceId = 1
  /\ runs = 0
  /\ lastRun = NoRun
  /\ hung = FALSE

\* The expander harness at rest.
ExpandIdle ==
  /\ outgoing = EmptyOutgoing
  /\ startDate = 0
  /\ endDate = 0
  /\ now = 0
  /\ phase = "idle"
  /\ NoResults

Init == AppInit /\ ExpandIdle

\* ------------------------------------------------------------ actions ---

Range(s) == {s[i] : i \in 1..Len(s)}

Pairs(allocationList) ==
  [i \in 1..Len(allocationList) |->
     <<allocationList[i].accountId, allocationList[i].amount>>]

Ids(allocationList) == {allocationList[i].id : i \in 1..Len(allocationList)}

\* AppContext.addAccount
addAccount ==
  /\ ~hung
  /\ Len(accounts) < MaxAccounts
  /\ nextAccountId <= MaxAccountId
  /\ accounts' = Append(accounts, nextAccountId)
  /\ nextAccountId' = nextAccountId + 1
  /\ lastRun' = NoRun
  /\ UNCHANGED <<outgoings, fundSources, allocations, payCycle, today,
                 nextSourceId, runs, hung>>
  /\ UNCHANGED expandVars
  /\ UNCHANGED pageVars

\* A deleteAccount(id) without the test for assigned outgoings.
deleteAccountUnchecked(id) ==
  /\ ~hung
  /\ accounts' = SelectSeq(accounts, LAMBDA a : a # id)
  /\ lastRun' = IF accounts' = accounts THEN lastRun ELSE NoRun
  /\ UNCHANGED <<outgoings, fundSources, allocations, payCycle, today,
                 nextAccountId, nextSourceId, runs, hung>>
  /\ UNCHANGED expandVars
  /\ UNCHANGED pageVars

\* AppContext.deleteAccount(id)
deleteAccount(id) ==
  /\ ~hung
  /\ IF \E i \in 1..Len(outgoings) : outgoings[i].accountId = id
     THEN UNCHANGED <<accounts, lastRun>>
     ELSE /\ accounts' = SelectSeq(accounts, LAMBDA a : a # id)
          /\ lastRun' = NoRun
  /\ UNCHANGED <<outgoings, fundSources, allocations, payCycle, today,
                 nextAccountId, nextSourceId, runs, hung>>
  /\ UNCHANGED expandVars
  /\ UNCHANGED pageVars

\* AppContext.addOutgoing, called by OutgoingForm with one of the user's
\* accounts selected.
addOutgoing(template, accountId) ==
  /\ ~hung
  /\ Len(outgoings) < MaxOutgoings
  /\ \A i \in 1..Len(outgoings) : outgoings[i].id # template.id
  /\ outgoings' = Append(outgoings, [template EXCEPT !.accountId = accountId])
  /\ lastRun' = NoRun
  /\ UNCHANGED <<accounts, fundSources, allocations, payCycle, today,
                 nextAccountId, nextSourceId, runs, hung>>
  /\ UNCHANGED expandVars
  /\ UNCHANGED pageVars

\* AppContext.deleteOutgoing(id)
deleteOutgoing(id) ==
  /\ ~hung
  /\ \E i \in 1..Len(outgoings) : outgoings[i].id = id
  /\ outgoings' = SelectSeq(outgoings, LAMBDA o : o.id # id)
  /\ lastRun' = NoRun
  /\ UNCHANGED <<accounts, fundSources, allocations, payCycle, today,
                 nextAccountId, nextSourceId, runs, hung>>
  /\ UNCHANGED expandVars
  /\ UNCHANGED pageVars

\* AppContext.addFundSource(amount)
addFundSource(amount) ==
  /\ ~hung
  /\ Len(fundSources) < MaxSources
  /\ nextSourceId <= MaxSourceId
  /\ fundSources' = Append(fundSources, [id |-> nextSourceId, amount |-> amount])
  /\ nextSourceId' = nextSourceId + 1
  /\ lastRun' = NoRun
  /\ UNCHANGED <<accounts, outgoings, allocations, payCycle, today,
                 nextAccountId, runs, hung>>
  /\ UNCHANGED expandVars
  /\ UNCHANGED pageVars

\* AppContext.deleteFundSource(id)
deleteFundSource(id) ==
  /\ ~hung
  /\ \E i \in 1..Len(fundSources) : fundSources[i].id = id
  /\ fundSources' = SelectSeq(fundSources, LAMBDA src : src.id # id)
  /\ lastRun' = NoRun
  /\ UNCHANGED <<accounts, outgoings, allocations, payCycle, today,
                 nextAccountId, nextSourceId, runs, hung>>
  /\ UNCHANGED expandVars
  /\ UNCHANGED pageVars

\* The run of updateFundsAndAllocations(amount) over the current pay period.
runAllocation(period, amount) ==
  Allocate(accounts, outgoings, period.startDate, period.endDate, today, amount,
           runs + 1)

\* updateAvailableFunds(amount) and updateAllocations(newAllocations), which a
\* run that never returns does not reach.
storeRun(amount, result) ==
  IF result.hang
  THEN /\ hung' = TRUE
       /\ UNCHANGED <<fundSources, allocations, nextSourceId, runs, lastRun>>
  ELSE /\ fundSources' = updateAvailableFunds(amount)
       /\ nextSourceId' = IF Len(fundSources) = 0 THEN nextSourceId + 1
                          ELSE nextSourceId
       /\ allocations' = result.allocations
       /\ runs' = runs + 1
       /\ lastRun' = [valid |-> TRUE, amount |-> amount,
                      again |-> lastRun.valid /\ lastRun.amount = amount,
                      before |-> allocations]
       /\ UNCHANGED hung

\* useAllocation.updateFundsAndAllocations(amount)
updateFundsAndAllocations(amount) ==
  /\ ~hung
  /\ runs < MaxRuns
  /\ Len(fundSources) = 0 => nextSourceId <= MaxSourceId
  /\ storeRun(amount, runAllocation(getPayPeriod(payCycle, today), amount))
  /\ UNCHANGED <<accounts, outgoings, payCycle, today, nextAccountId>>
  /\ UNCHANGED expandVars
  /\ UNCHANGED pageVars

\* AllocationPage's recompute effect, once its timer has fired.
RecomputeEffect ==
  /\ Len(accounts) > 0
  /\ updateFundsAndAllocations(totalFunds)

Next ==
  \/ addAccount
  \/ \E id \in 1..MaxAccountId : deleteAccount(id)
  \/ \E t \in 1..Len(Templates) : \E a \in Range(accounts) :
       addOutgoing(Templates[t], a)
  \/ \E id \in 1..Len(Templates) : deleteOutgoing(id)
  \/ \E amount \in SourceAmounts : addFundSource(amount)
  \/ \E id \in 1..MaxSourceId : deleteFundSource(id)
  \/ \E amount \in RunAmounts : updateFundsAndAllocations(amount)
  \/ RecomputeEffect

Spec == Init /\ [][Next]_vars

\* ------------------------------------------- claims: allocation engine ---

\* The window the run reads.
RunPeriod == getPayPeriod(payCycle, today)

\* What the account needs in the run's window, by the run's own expander.
Need(accountId) ==
  TotalNeeded(outgoings, accountId, RunPeriod.startDate, RunPeriod.endDate,
              today).amount

\* The needs of the first n accounts of the list, summed.
RECURSIVE NeedBefore(_)
NeedBefore(n) == IF n = 0 THEN 0 ELSE NeedBefore(n - 1) + Need(accounts[n])

TotalNeed == NeedBefore(Len(accounts))

\* The state right after a completed run on a positive amount.
RanPositive == lastRun.valid /\ lastRun.amount > 0

\* C1. Conservation: after a run on totalFunds > 0 the allocation amounts sum
\* to at most totalFunds, to exactly totalFunds when the accounts' total need
\* is >= totalFunds, and to exactly the total need when it is < totalFunds.
C1_Conservation ==
  RanPositive =>
    /\ SumAmounts(allocations) <= lastRun.amount
    /\ TotalNeed >= lastRun.amount => SumAmounts(allocations) = lastRun.amount
    /\ TotalNeed < lastRun.amount => SumAmounts(allocations) = TotalNeed

\* A run that ran short: two records that use up the funds, the need larger.
C1_Witness ==
  /\ RanPositive
  /\ Len(allocations) = 2
  /\ TotalNeed > lastRun.amount
  /\ SumAmounts(allocations) = lastRun.amount

\* What the greedy walk leaves for the i-th account of the list.
RemainingAt(i) ==
  IF lastRun.amount > NeedBefore(i - 1) THEN lastRun.amount - NeedBefore(i - 1)
  ELSE 0

\* What the greedy walk gives the i-th account of the list.
GivenAt(i) ==
  IF Need(accounts[i]) < RemainingAt(i) THEN Need(accounts[i]) ELSE RemainingAt(i)

\* C2. Greedy in list order: after a run on totalFunds > 0 the records are, in
\* account order, one record of min(required, remaining) for each account
\* with required > 0 reached with remaining > 0, where remaining is totalFunds
\* less what the earlier accounts received; no other record exists, so every
\* record is positive and no account has two.
C2_Greedy ==
  RanPositive =>
    /\ Pairs(allocations) =
         SelectSeq([i \in 1..Len(accounts) |-> <<accounts[i], GivenAt(i)>>],
                   LAMBDA p : p[2] > 0)
    /\ \A i \in 1..Len(allocations) : allocations[i].amount > 0
    /\ \A i, j \in 1..Len(allocations) :
         i < j => allocations[i].accountId # allocations[j].accountId

\* Two accounts in need: the first is covered in full, the second in part.
C2_Witness ==
  /\ RanPositive
  /\ Len(accounts) = 2
  /\ Len(allocations) = 2
  /\ allocations[1].amount = Need(accounts[1])
  /\ allocations[2].amount > 0
  /\ allocations[2].amount < Need(accounts[2])

\* C3. Idempotence: a run that follows a run of the same amount, with the
\* accounts, outgoings, pay cycle and clock untouched in between, stores the
\* same (accountId, amount) pairs in the same order; its record ids are new.
C3_Idempotent ==
  lastRun.valid /\ lastRun.again =>
    /\ Pairs(allocations) = Pairs(lastRun.before)
    /\ Ids(allocations) \cap Ids(lastRun.before) = {}

\* A repeated run that produced two records.
C3_Witness ==
  /\ lastRun.valid
  /\ lastRun.again
  /\ Len(allocations) = 2

\* C4. The run never errors: called with totalFunds <= 0, or with an empty
\* account list, it completes and the stored allocations are the empty list.
C4_EmptyRun ==
  lastRun.valid /\ (lastRun.amount <= 0 \/ accounts = <<>>) =>
    /\ allocations = <<>>
    /\ ~hung

\* A run on a non-positive amount that cleared allocations stored before it,
\* with accounts in need.
C4_Witness ==
  /\ lastRun.valid
  /\ lastRun.amount <= 0
  /\ lastRun.before # <<>>
  /\ TotalNeed > 0
  /\ allocations = <<>>

\* ---------------------------------------- the expanders, one call each ---

MaxInterval == 3

DueDates == {Ymd(2023, 11, 30), Ymd(2024, 1, 1), Ymd(2024, 1, 31), Ymd(2024, 3, 1)}

PlanStarts == {Ymd(2024, 1, 1), Ymd(2024, 1, 31)}

PlanDueDates == {Ymd(2024, 3, 1), Ymd(2024, 4, 1)}

PlanTotals == {1, 10000, 10001}

NamedOutgoings ==
  { Named(1, 2000, d, r, p, NoPlan) :
      d \in DueDates,
      r \in {"none", "weekly", "biweekly", "monthly", "quarterly", "yearly"},
      p \in BOOLEAN }

CustomOutgoings ==
  { Custom(1, 2000, d, i, u, p) :
      d \in DueDates, i \in 1..MaxInterval,
      u \in {"day", "week", "month", "year"}, p \in BOOLEAN }

PlanOutgoings ==
  { Named(1, t, d, "none", p, Plan(s, f, NoAmount)) :
      t \in PlanTotals, d \in PlanDueDates, s \in PlanStarts,
      f \in {"weekly", "biweekly", "monthly"}, p \in BOOLEAN }

\* Plans on a recurring outgoing and plans with the installment amount typed in.
PlanVariants ==
  { Named(1, 10000, d, r, FALSE, Plan(s, f, a)) :
      d \in PlanDueDates, s \in PlanStarts, r \in {"none", "weekly", "monthly"},
      f \in {"weekly", "biweekly", "monthly"}, a \in {NoAmount, 2500} }

\* Outgoings whose stored dates are malformed: new Date(dueDate) or
\* new Date(paymentPlan.startDate) is an Invalid Date, or the plan starts on or
\* after the due date.
MalformedPlans ==
  { <<NaNDate, Ymd(2024, 1, 1)>>, <<Ymd(2024, 3, 1), NaNDate>>,
    <<NaNDate, NaNDate>>, <<Ymd(2024, 3, 1), Ymd(2024, 3, 1)>>,
    <<Ymd(2024, 3, 1), Ymd(2024, 4, 1)>> }

MalformedOutgoings ==
  { Named(1, 2000, NaNDate, r, FALSE, NoPlan) :
      r \in {"none", "weekly", "biweekly", "monthly", "quarterly", "yearly"} }
  \cup { Custom(1, 2000, NaNDate, i, u, FALSE) :
           i \in 1..MaxInterval, u \in {"day", "week", "month", "year"} }
  \cup { Named(1, 10000, p[1], r, FALSE, Plan(p[2], f, NoAmount)) :
           p \in MalformedPlans, r \in {"none", "weekly"},
           f \in {"weekly", "biweekly", "monthly"} }

ExpandOutgoings ==
  NamedOutgoings \cup CustomOutgoings \cup PlanOutgoings \cup PlanVariants
    \cup MalformedOutgoings

JanuaryWindows ==
  { Period(Ymd(2024, 1, 8), Ymd(2024, 1, 22)),
    Period(Ymd(2023, 12, 28), Ymd(2024, 1, 27)),
    Period(Ymd(2024, 1, 16), Ymd(2024, 1, 18)) }

Windows ==
  JanuaryWindows \cup { Period(Ymd(2024, 1, 1), Ymd(2024, 3, 31)),
                        Period(Ymd(2024, 6, 1), Ymd(2024, 6, 30)) }

LateNow == Ymd(2024, 6, 1)

Nows == {Ymd(2024, 1, 1), Ymd(2024, 1, 16), LateNow}

\* A cadence counted in days is expanded over the January windows and at the
\* January clock readings only: walking it day by day through a quarter, or
\* rolling it to June, nests the loops of the resolver and of the expanders a
\* hundred and more evaluations deep.
DayCadence(o) == IsCustom(o) /\ o.recurrenceUnit = "day"

WindowsOf(o) == IF DayCadence(o) THEN JanuaryWindows ELSE Windows

Clocks(o) == IF DayCadence(o) THEN Nows \ {LateNow} ELSE Nows

\* One outgoing, one window and one clock reading, no call made yet.
InitExpand ==
  /\ AppInit
  /\ outgoing \in ExpandOutgoings
  /\ \E w \in WindowsOf(outgoing) : startDate = w.startDate /\ endDate = w.endDate
  /\ now \in Clocks(outgoing)
  /\ phase = "input"
  /\ NoResults

\* Every consumer is called once on the outgoing, the window and the clock.
Expand ==
  /\ phase = "input"
  /\ phase' = "done"
  /\ nextOcc' =
       getNextOccurrence(outgoing.dueDate, outgoing.recurrence,
         IF outgoing.isCustomRecurrence THEN outgoing.recurrenceInterval ELSE 0,
         IF outgoing.isCustomRecurrence THEN outgoing.recurrenceUnit
                                        ELSE "undefined",
         now)
  /\ hookOcc' = getOutgoingOccurrencesInPayPeriod(outgoing, startDate, endDate, now)
  /\ pageOcc' =
       OutgoingsPage_getOutgoingOccurrencesInPayPeriod(outgoing, startDate,
                                                       endDate, now)
  /\ sidebarAmt' = requiredForPayPeriod(<<outgoing>>, startDate, endDate, now)
  /\ allocPageAmt' =
       totalRequiredForPayPeriod(<<outgoing>>, startDate, endDate, now)
  /\ allocPageNeeded' =
       getOutgoingsForPayPeriod(<<outgoing>>, outgoing.accountId, startDate,
                                endDate, now)
  /\ contextRequired' = totalRequired(<<outgoing>>)
  /\ UNCHANGED <<outgoing, startDate, endDate, now>>
  /\ UNCHANGED appVars
  /\ UNCHANGED pageVars

NextExpand == Expand

SpecExpand == InitExpand /\ [][NextExpand]_vars

\* ------------------------------------------------ claims: the expanders ---

Expanded == phase = "done"

\* An unpaused outgoing without a payment plan, expanded.
Active ==
  /\ Expanded /\ ~outgoing.isPaused /\ ~outgoing.paymentPlan.enabled
  /\ outgoing.dueDate >= 0

OneTime == Active /\ outgoing.recurrence = "none" /\ ~outgoing.isCustomRecurrence

Recurring == Active /\ ~OneTime

Dates(occurrences) == {occurrences[i].date : i \in 1..Len(occurrences)}

\* C5. Paused exclusion: a paused outgoing yields no occurrence from the
\* expanders and adds 0 to the allocator's need, to the sidebar's required
\* figure, to the allocation page's required and needed figures and to the
\* context's totalRequired.
C5_PausedExcluded ==
  Expanded /\ outgoing.isPaused =>
    /\ hookOcc.occ = <<>>
    /\ pageOcc.occ = <<>>
    /\ sidebarAmt.amount = 0
    /\ allocPageAmt.amount = 0
    /\ allocPageNeeded.amount = 0
    /\ contextRequired = 0

Weekly ==
  Active /\ ~outgoing.isCustomRecurrence
    /\ outgoing.recurrence \in {"weekly", "biweekly"}

CadenceStep == IF outgoing.recurrence = "weekly" THEN 7 ELSE 14

\* The cadence dates dueDate + k * CadenceStep, k >= 0, inside the window and
\* not before `from`.
CadenceDates(from) ==
  {d \in startDate..endDate :
     d >= from /\ d >= outgoing.dueDate
       /\ (d - outgoing.dueDate) % CadenceStep = 0}

\* The hook's expander emitted one occurrence of the outgoing's amount for
\* each date of S and nothing else.
EmitsExactly(S) ==
  /\ ~hookOcc.hang
  /\ Len(hookOcc.occ) = Cardinality(S)
  /\ Dates(hookOcc.occ) = S
  /\ \A i \in 1..Len(hookOcc.occ) : hookOcc.occ[i].amount = outgoing.amount

\* C6 as claimed. Window completeness for weekly and biweekly outgoings: for
\* every window and every current date the expander emits exactly one
\* occurrence, of the outgoing's amount, for each cadence date inside the
\* window and none for any other date.
C6_WindowComplete == Weekly => EmitsExactly(CadenceDates(startDate))

\* C6 as the code has it. For weekly and biweekly outgoings the expander emits
\* exactly one occurrence, of the outgoing's amount, for each cadence date that
\* is inside the window and not before the current date, and none for any
\* other date; the page's expander returns the same list whenever there is
\* such a date.
C6_WindowCompleteFromToday ==
  Weekly =>
    /\ EmitsExactly(CadenceDates(now))
    /\ CadenceDates(now) # {} => pageOcc = hookOcc

\* A weekly outgoing with a cadence date inside the window but before today,
\* and a later one emitted.
C6_Witness ==
  /\ Weekly
  /\ CadenceDates(startDate) # CadenceDates(now)
  /\ Len(hookOcc.occ) >= 1

\* The claim's example: due 2024-01-01 weekly, window 2024-01-08..2024-01-22.
C6_Example ==
  /\ Weekly
  /\ outgoing.recurrence = "weekly"
  /\ outgoing.dueDate = Ymd(2024, 1, 1)
  /\ startDate = Ymd(2024, 1, 8)
  /\ endDate = Ymd(2024, 1, 22)
  /\ Dates(hookOcc.occ) = {Ymd(2024, 1, 8), Ymd(2024, 1, 15), Ymd(2024, 1, 22)}

\* The first date at or after the window start reached from d by whole steps
\* of the outgoing's cadence.
RECURSIVE FirstFrom(_)
FirstFrom(d) ==
  IF d < 0 \/ d >= startDate THEN d
  ELSE IF StepOccurrence(outgoing, d) = d THEN Hang
  ELSE FirstFrom(StepOccurrence(outgoing, d))

\* The date of the upcoming payment.
Upcoming == IF OneTime THEN outgoing.dueDate ELSE FirstFrom(nextOcc)

\* The outgoing's first date at or after the window start is after its end.
Beyond ==
  /\ Active
  /\ startDate <= endDate
  /\ Upcoming >= startDate
  /\ Upcoming > endDate

\* C7 as claimed. An upcoming payment beyond the window end is still
\* surfaced: the expander returns exactly one occurrence, that date.
C7_UpcomingSurfaced ==
  Beyond =>
    /\ Dates(hookOcc.occ) = {Upcoming} /\ Len(hookOcc.occ) = 1
    /\ Dates(pageOcc.occ) = {Upcoming} /\ Len(pageOcc.occ) = 1

\* C7 as the code has it. For an upcoming payment beyond the window end the
\* OutgoingsPage expander returns exactly one occurrence, that date, and the
\* allocator's expander and the sidebar return nothing.
C7_UpcomingSurfacedByPage ==
  Beyond =>
    /\ pageOcc = Done(<<Occ(Upcoming, outgoing.amount, 0, 0)>>)
    /\ hookOcc = Done(<<>>)
    /\ sidebarAmt = Amount(0)

\* A recurring outgoing whose next occurrence is before the window and whose
\* stepping jumps over the window.
C7_Witness ==
  /\ Beyond
  /\ Recurring
  /\ nextOcc < startDate
  /\ Len(pageOcc.occ) = 1
  /\ hookOcc.occ = <<>>

\* C8. One-time payments are never rolled forward: for recurrence none (no
\* custom interval) getNextOccurrence returns the due date unchanged whatever
\* the current date, and, without a payment plan, no consumer emits or counts
\* an occurrence when that date is before the window start.
C8_NeverRolledForward ==
  Expanded /\ outgoing.recurrence = "none" /\ ~outgoing.isCustomRecurrence =>
    /\ nextOcc = outgoing.dueDate
    /\ OneTime /\ outgoing.dueDate < startDate =>
         /\ hookOcc = Done(<<>>)
         /\ pageOcc = Done(<<>>)
         /\ sidebarAmt = Amount(0)

\* The claim's example: due 2024-03-01, today 2024-06-01, the window June 2024.
C8_Witness ==
  /\ OneTime
  /\ outgoing.dueDate = Ymd(2024, 3, 1)
  /\ now = Ymd(2024, 6, 1)
  /\ startDate = Ymd(2024, 6, 1)
  /\ endDate = Ymd(2024, 6, 30)
  /\ nextOcc = Ymd(2024, 3, 1)
  /\ hookOcc.occ = <<>>

CoarseNamed ==
  Active /\ ~outgoing.isCustomRecurrence
    /\ outgoing.recurrence \in {"monthly", "quarterly", "yearly"}

CoarseCustom ==
  Active /\ IsCustom(outgoing)
    /\ ~(outgoing.recurrenceUnit = "week" /\ outgoing.recurrenceInterval <= 2)

\* The dates nextOcc + k * recurrenceInterval days, k >= 0, inside the window.
CustomDayDates ==
  {d \in startDate..endDate :
     d >= nextOcc /\ (d - nextOcc) % outgoing.recurrenceInterval = 0}

\* C9 as claimed. At most one occurrence per window for monthly, quarterly,
\* yearly and every custom cadence other than custom weeks of interval <= 2,
\* in every expander.
C9_AtMostOne ==
  CoarseNamed \/ CoarseCustom =>
    /\ Len(hookOcc.occ) <= 1
    /\ Len(pageOcc.occ) <= 1
    /\ sidebarAmt.amount <= outgoing.amount

\* C9 as the code has it. Monthly, quarterly and yearly outgoings give at most
\* one occurrence per window in every expander; a custom cadence other than
\* custom weeks of interval <= 2 gives at most one on the OutgoingsPage
\* expander only: the allocator's expander and the sidebar count one
\* occurrence for every custom-day cadence date from the next occurrence to
\* the window end.
C9_AtMostOneOnPage ==
  /\ CoarseNamed =>
       /\ Len(hookOcc.occ) <= 1
       /\ Len(pageOcc.occ) <= 1
       /\ sidebarAmt.amount <= outgoing.amount
  /\ CoarseCustom => Len(pageOcc.occ) <= 1
  /\ CoarseCustom /\ outgoing.recurrenceUnit = "day" /\ startDate <= endDate =>
       /\ Dates(hookOcc.occ) = CustomDayDates
       /\ Len(hookOcc.occ) = Cardinality(CustomDayDates)
       /\ sidebarAmt.amount = Cardinality(CustomDayDates) * outgoing.amount

\* A custom-day outgoing with one occurrence on the page and several in the
\* allocator's expander.
C9_Witness ==
  /\ CoarseCustom
  /\ outgoing.recurrenceUnit = "day"
  /\ Len(pageOcc.occ) = 1
  /\ Len(hookOcc.occ) >= 2

ValidPlan ==
  /\ Expanded
  /\ ~outgoing.isPaused
  /\ outgoing.paymentPlan.enabled
  /\ outgoing.paymentPlan.startDate >= 0
  /\ outgoing.paymentPlan.startDate < outgoing.dueDate
  /\ outgoing.paymentPlan.installmentAmount = NoAmount

\* The installment dates: from the plan's start, by whole plan periods, while
\* strictly before the due date.
RECURSIVE PlanDates(_)
PlanDates(d) ==
  IF d >= outgoing.dueDate THEN <<>>
  ELSE <<d>> \o PlanDates(StepPlan(d, outgoing.paymentPlan.frequency))

InstallmentCount == Len(PlanDates(outgoing.paymentPlan.startDate))

\* amount is total / n rounded up to a whole cent.
RoundedUp(amount, total, n) == amount * n >= total /\ (amount - 1) * n < total

\* C10. Payment-plan installments never under-cover the total: with N >= 1
\* installment dates, every installment the expanders emit carries N and the
\* amount a = total / N rounded up to a whole cent, so that N * a >= total.
C10_NeverUnderCovers ==
  ValidPlan =>
    /\ InstallmentCount >= 1
    /\ \A o \in Range(hookOcc.occ) \cup Range(pageOcc.occ) :
         /\ o.totalInstallments = InstallmentCount
         /\ RoundedUp(o.amount, outgoing.amount, InstallmentCount)
         /\ o.amount * InstallmentCount >= outgoing.amount

\* The claim's example: total 100.00, 2024-01-01 to 2024-04-01 monthly, the
\* three installments of 33.34 inside one window.
C10_Witness ==
  /\ ValidPlan
  /\ outgoing.amount = 10000
  /\ InstallmentCount = 3
  /\ Len(hookOcc.occ) = 3
  /\ \A i \in 1..3 : hookOcc.occ[i].amount = 3334
  /\ SumAmounts(hookOcc.occ) = 10002

\* --------------------------------------------- claims: payment plans ---

\* An unpaused outgoing with an enabled plan whose dates are valid, expanded.
PlanActive ==
  /\ Expanded
  /\ ~outgoing.isPaused
  /\ outgoing.paymentPlan.enabled
  /\ outgoing.paymentPlan.startDate >= 0
  /\ outgoing.dueDate >= 0
  /\ outgoing.paymentPlan.startDate < outgoing.dueDate

\* The schedule: installment i of N on the date reached from the plan's start
\* by i - 1 plan periods; only the installments dated inside the window.
PlanSchedule ==
  LET dates == PlanDates(outgoing.paymentPlan.startDate)
      all == [i \in 1..Len(dates) |->
                [date |-> dates[i], installmentNumber |-> i,
                 totalInstallments |-> Len(dates)]]
  IN  SelectSeq(all, LAMBDA x : startDate <= x.date /\ x.date <= endDate)

Labels(occurrences) ==
  [i \in 1..Len(occurrences) |->
     [date |-> occurrences[i].date,
      installmentNumber |-> occurrences[i].installmentNumber,
      totalInstallments |-> occurrences[i].totalInstallments]]

\* The installment amount: the one typed in, else the total over N rounded up.
IsPlanAmount(amount) ==
  IF outgoing.paymentPlan.installmentAmount # NoAmount
  THEN amount = outgoing.paymentPlan.installmentAmount
  ELSE RoundedUp(amount, outgoing.amount, InstallmentCount)

\* C11. Payment-plan expansion: for an unpaused outgoing with an enabled, valid
\* plan the allocator's and the page's expanders emit exactly one occurrence
\* for each installment i of N dated inside the window, labelled i/N by its
\* index in the whole schedule and carrying the installment amount, and
\* nothing else, whatever the outgoing's recurrence and the current date; the
\* sidebar counts the same installments.
C11_PlanExpansion ==
  PlanActive =>
    /\ ~hookOcc.hang /\ ~pageOcc.hang /\ ~sidebarAmt.hang
    /\ Labels(hookOcc.occ) = PlanSchedule
    /\ Labels(pageOcc.occ) = PlanSchedule
    /\ \A o \in Range(hookOcc.occ) \cup Range(pageOcc.occ) : IsPlanAmount(o.amount)
    /\ sidebarAmt.amount = SumAmounts(hookOcc.occ)

\* A weekly outgoing on a weekly plan from 2024-01-01: the window 2024-01-08 to
\* 2024-01-22 holds the installments 2/N, 3/N and 4/N and no weekly occurrence
\* of the outgoing's own.
C11_Witness ==
  /\ PlanActive
  /\ outgoing.recurrence = "weekly"
  /\ outgoing.paymentPlan.frequency = "weekly"
  /\ outgoing.paymentPlan.installmentAmount = 2500
  /\ Len(hookOcc.occ) = 3
  /\ hookOcc.occ[1].installmentNumber = 2
  /\ hookOcc.occ[3].installmentNumber = 4
  /\ hookOcc.occ[1].amount = 2500
  /\ pageOcc = hookOcc

\* ------------------------------------------- claims: malformed dates ---

\* An unpaused outgoing whose due date is an Invalid Date, or whose enabled
\* plan has an Invalid Date for its start or starts on or after the due date.
Malformed ==
  /\ Expanded
  /\ ~outgoing.isPaused
  /\ \/ outgoing.dueDate = NaNDate
     \/ /\ outgoing.paymentPlan.enabled
        /\ \/ outgoing.paymentPlan.startDate = NaNDate
           \/ outgoing.paymentPlan.startDate >= outgoing.dueDate

\* C12. Malformed dates degrade to nothing: for an outgoing with an unparseable
\* due date, or with an enabled plan whose start is unparseable or not before
\* the due date, the allocator's expander returns the empty list and the
\* sidebar counts 0, for every window and clock reading, and both return.
C12_MalformedIsEmpty ==
  Malformed => hookOcc = Done(<<>>) /\ sidebarAmt = Amount(0)

\* A weekly outgoing with an unparseable due date, and a plan that starts on
\* its due date, have both been expanded to nothing.
C12_Witness ==
  /\ Malformed
  /\ hookOcc = Done(<<>>)
  /\ \/ outgoing.dueDate = NaNDate /\ outgoing.recurrence = "weekly"
          /\ ~outgoing.paymentPlan.enabled /\ nextOcc = NaNDate
     \/ outgoing.paymentPlan.enabled
          /\ outgoing.paymentPlan.startDate = outgoing.dueDate
          /\ outgoing.dueDate = Ymd(2024, 3, 1)

\* ------------------------------------------------ the resolver alone ---

\* Every value of RecurrenceType.
RecurrenceTypes ==
  {"none", "daily", "weekly", "biweekly", "monthly", "quarterly", "yearly"}

ResolveOutgoings ==
  { Named(1, 2000, d, r, FALSE, NoPlan) : d \in DueDates, r \in RecurrenceTypes }
  \cup { Custom(1, 2000, d, i, u, FALSE) :
           d \in DueDates, i \in 1..MaxInterval,
           u \in {"day", "week", "month", "year"} }

\* The clock readings of the resolver: before, on and after the due dates,
\* with 29 February among them.
ResolveNows == Nows \cup {Ymd(2024, 1, 31), Ymd(2024, 2, 29), Ymd(2024, 3, 1)}

\* A cadence that advances by days is resolved in January only.
ResolveClocks(o) ==
  IF DayCadence(o) \/ (~o.isCustomRecurrence /\ o.recurrence = "daily")
  THEN Nows \ {LateNow} ELSE ResolveNows

InitResolve ==
  /\ AppInit
  /\ outgoing \in ResolveOutgoings
  /\ startDate = 0
  /\ endDate = 0
  /\ now \in ResolveClocks(outgoing)
  /\ phase = "input"
  /\ NoResults

\* One call of getNextOccurrence, with the arguments the expanders pass.
Resolve ==
  /\ phase = "input"
  /\ phase' = "resolved"
  /\ nextOcc' =
       getNextOccurrence(outgoing.dueDate, outgoing.recurrence,
         IF outgoing.isCustomRecurrence THEN outgoing.recurrenceInterval ELSE 0,
         IF outgoing.isCustomRecurrence THEN outgoing.recurrenceUnit
                                        ELSE "undefined",
         now)
  /\ UNCHANGED <<outgoing, startDate, endDate, now, hookOcc, pageOcc, sidebarAmt,
                 allocPageAmt, allocPageNeeded, contextRequired>>
  /\ UNCHANGED appVars
  /\ UNCHANGED pageVars

NextResolve == Resolve

SpecResolve == InitResolve /\ [][NextResolve]_vars

\* ---------------------------------------------- claims: the resolver ---

Resolved == phase = "resolved"

\* One whole step of the outgoing's cadence.
CadenceStepOf(d) ==
  IF IsCustom(outgoing)
  THEN StepCustom(d, outgoing.recurrenceInterval, outgoing.recurrenceUnit)
  ELSE StepNamed(d, outgoing.recurrence)

\* The date k whole cadence steps after d.
RECURSIVE StepsFrom(_, _)
StepsFrom(d, k) ==
  CASE k = 0 -> d
    [] d < 0 -> d
    [] OTHER -> StepsFrom(CadenceStepOf(d), k - 1)

\* The largest number of cadence steps between a base date and its
\* resolution.
MaxSteps == 50

RecurringCadence == IsCustom(outgoing) \/ outgoing.recurrence # "none"

\* C13. getNextOccurrence returns the earliest cadence date on or after today:
\* a base date on or after today comes back unchanged; a base date before
\* today on a recurring cadence (named or custom) comes back advanced by
\* k >= 1 whole cadence steps to a date r >= today whose predecessor, k - 1
\* steps from the base date, is before today.
C13_EarliestOnOrAfter ==
  Resolved =>
    /\ outgoing.dueDate >= now => nextOcc = outgoing.dueDate
    /\ outgoing.dueDate < now /\ RecurringCadence =>
         \E k \in 1..MaxSteps :
           /\ nextOcc = StepsFrom(outgoing.dueDate, k)
           /\ nextOcc >= now
           /\ StepsFrom(outgoing.dueDate, k - 1) < now

\* Monthly from 2024-01-01 resolved on 2024-03-01 gives 2024-03-01 itself, and
\* weekly from 2023-11-30 resolved on 2024-01-16 gives 2024-01-18.
C13_Witness ==
  /\ Resolved
  /\ ~outgoing.isCustomRecurrence
  /\ \/ outgoing.recurrence = "monthly" /\ outgoing.dueDate = Ymd(2024, 1, 1)
          /\ now = Ymd(2024, 3, 1) /\ nextOcc = Ymd(2024, 3, 1)
     \/ outgoing.recurrence = "weekly" /\ outgoing.dueDate = Ymd(2023, 11, 30)
          /\ now = Ymd(2024, 1, 16) /\ nextOcc = Ymd(2024, 1, 18)

\* ------------------------------------------------- the pay period alone ---

\* PayCycle.dayOfMonth, 1-31.
DaysOfMonth == 1..31

MonthlyCycles ==
  { [dayOfMonth |-> d, frequency |-> "monthly", lastPayDate |-> NoDate] :
      d \in DaysOfMonth }

\* Stored last paydays: months back, inside the range of the clock readings
\* and near its end.
LastPayDates ==
  {Ymd(2023, 9, 4), Ymd(2024, 1, 8), Ymd(2024, 1, 31), Ymd(2024, 3, 25)}

WeeklyCycles ==
  { [dayOfMonth |-> d, frequency |-> f, lastPayDate |-> l] :
      d \in {1, 28, 31}, f \in {"weekly", "biweekly"},
      l \in LastPayDates \cup {NoDate} }

PayCycles == MonthlyCycles \cup WeeklyCycles

\* The days on which the period is asked for: December to March, across the
\* turn of the year and a leap February.
Todays == Ymd(2023, 12, 1)..Ymd(2024, 3, 31)

\* The stored pay cycle and the clock, no call made yet.
InitPeriod ==
  /\ accounts = <<>>
  /\ outgoings = <<>>
  /\ fundSources = <<>>
  /\ allocations = <<>>
  /\ payCycle \in PayCycles
  /\ today \in Todays
  /\ nextAccountId = 1
  /\ nextSourceId = 1
  /\ runs = 0
  /\ lastRun = NoRun
  /\ hung = FALSE
  /\ outgoing = EmptyOutgoing
  /\ startDate = 0
  /\ endDate = 0
  /\ now = today
  /\ phase = "input"
  /\ NoResults
  /\ PageIdle

\* const { startDate, endDate } = getPayPeriod()
payPeriod(period) ==
  /\ phase = "input"
  /\ phase' = "period"
  /\ startDate' = period.startDate
  /\ endDate' = period.endDate
  /\ UNCHANGED <<outgoing, now, hookOcc, pageOcc, sidebarAmt, allocPageAmt,
                 allocPageNeeded, contextRequired, nextOcc>>
  /\ UNCHANGED appVars
  /\ UNCHANGED pageVars

NextPeriod == payPeriod(getPayPeriod(payCycle, today))

SpecPeriod == InitPeriod /\ [][NextPeriod]_vars

\* -------------------------------------------- claims: the pay period ---

PeriodKnown == phase = "period"

Monthly == payCycle.frequency = "monthly"

\* A weekly or biweekly cycle with a stored last payday.
Stepped == payCycle.frequency \in {"weekly", "biweekly"} /\ payCycle.lastPayDate >= 0

CadenceDays == IF payCycle.frequency = "biweekly" THEN 14 ELSE 7

\* C14. Monthly pay period contains the reference date: for every dayOfMonth
\* in 1..31 and every current date the period returned for a monthly cycle
\* satisfies startDate <= today <= endDate.
C14_MonthlyContainsToday ==
  PeriodKnown /\ Monthly => startDate <= today /\ today <= endDate

\* The payday anchors of the month of today, of the month before it and of
\* the month after it, for a dayOfMonth that all three months have.
AnchorMonth(k) == getFullYear(today) * 12 + getMonth(today) + k

Anchor(k) ==
  DaysBeforeYear(AnchorMonth(k) \div 12)
    + DaysBeforeMonth(AnchorMonth(k) \div 12, AnchorMonth(k) % 12)
    + payCycle.dayOfMonth - 1

AnchorsExist ==
  \A k \in {-1, 0, 1} :
    payCycle.dayOfMonth <= DaysInMonth(AnchorMonth(k) \div 12, AnchorMonth(k) % 12)

NextPayDate ==
  LET k == IF today < payCycle.lastPayDate THEN 1
           ELSE (today - payCycle.lastPayDate) \div CadenceDays + 1
  IN  payCycle.lastPayDate + k * CadenceDays

\* C16. Weekly/biweekly pay period is one cadence long: with lastPayDate set,
\* the period returned is [nextPayDate - 7 (14) days, nextPayDate - 1 day],
\* nextPayDate being the first date lastPayDate + k*7 (k*14) days, k >= 1,
\* after today, however far in the past lastPayDate is.
C16_OneCadenceLong ==
  PeriodKnown /\ Stepped =>
    /\ startDate = NextPayDate - CadenceDays
    /\ endDate = NextPayDate - 1

\* C17. Weekly/biweekly pay period contains the reference date: for every
\* stored lastPayDate (past, today or future) and every current date the
\* stepping loop ends and the period returned satisfies
\* startDate <= today <= endDate.
C17_SteppedContainsToday ==
  PeriodKnown /\ Stepped => startDate <= today /\ today <= endDate

\* ------------------------------------------------------ the ledger alone ---

MaxLedgerSources == 2

MaxLedgerId == 4

\* The numbers handed to the ledger: NaN, a negative amount, zero and a
\* positive amount.
LedgerAmounts == {NaNAmount, -500, 0, 2500}

\* The totals handed to updateAvailableFunds.
AvailableAmounts == LedgerAmounts \cup {4000}

\* What the amount field of a source row holds: nothing, or text that
\* parseFloat turns into a number or into NaN.
NoInput == [empty |-> TRUE, amount |-> 0]

Inputs == {NoInput} \cup {[empty |-> FALSE, amount |-> a] : a \in LedgerAmounts}

\* availableFunds as stored by an earlier version of the application.
StoredAvailableFunds == {0, 9000}

\* A resetFundSources() that installs no source.
resetFundSourcesToNone(id) == <<>>

\* A resetFundSources() that hands out the same id every time.
resetFundSourcesReusingId(id) == <<[id |-> 1, amount |-> 0]>>

\* AppContext.resetFundSources(): the new fundSources.
resetFundSources(id) == <<[id |-> id, amount |-> 0]>>

\* fundSources.map(source => source.id === id ? {...source, amount} : source)
WithAmount(sources, id, amount) ==
  [i \in 1..Len(sources) |->
     IF sources[i].id = id THEN [sources[i] EXCEPT !.amount = amount]
     ELSE sources[i]]

\* fundSources.find(s => s.id === sourceId), when there is one.
SourceOf(id) ==
  fundSources[CHOOSE i \in 1..Len(fundSources) : fundSources[i].id = id]

HasSource(id) == \E i \in 1..Len(fundSources) : fundSources[i].id = id

\* !isNaN(amount) && amount >= 0
ValidAmount(amount) == amount # NaNAmount /\ amount >= 0

\* source.amount || 0
OrZero(amount) == IF amount = NaNAmount THEN 0 ELSE amount

\* What an operation of the ledger leaves alone.
ledgerRest ==
  <<accounts, outgoings, allocations, payCycle, today, nextAccountId, runs,
    lastRun, hung, outgoing, startDate, endDate, now, hookOcc, pageOcc,
    sidebarAmt, allocPageAmt, allocPageNeeded, contextRequired, nextOcc,
    newSourceIds, manualAllocations, timer, renderedSources>>

\* AppProvider's first render: the stored sources, or one source made of the
\* stored availableFunds when that is positive.
InitLedger ==
  /\ accounts = <<>>
  /\ outgoings = <<>>
  /\ \E availableFunds \in StoredAvailableFunds :
       /\ fundSources = IF availableFunds > 0
                        THEN <<[id |-> 1, amount |-> availableFunds]>> ELSE <<>>
       /\ nextSourceId = IF availableFunds > 0 THEN 2 ELSE 1
  /\ allocations = <<>>
  /\ payCycle = DefaultPayCycle
  /\ today = Today0
  /\ nextAccountId = 1
  /\ runs = 0
  /\ lastRun = NoRun
  /\ hung = FALSE
  /\ outgoing = EmptyOutgoing
  /\ startDate = 0
  /\ endDate = 0
  /\ now = 0
  /\ phase = "load"
  /\ NoResults
  /\ PageIdle

\* AppContext.addFundSource(amount) on the ledger alone.
ledgerAddFundSource(amount) ==
  /\ Len(fundSources) < MaxLedgerSources
  /\ nextSourceId <= MaxLedgerId
  /\ fundSources' = Append(fundSources, [id |-> nextSourceId, amount |-> amount])
  /\ nextSourceId' = nextSourceId + 1
  /\ phase' = "add"
  /\ UNCHANGED ledgerRest

\* AppContext.updateFundSource(updatedSource)
ledgerUpdateFundSource(id, amount) ==
  /\ fundSources' = WithAmount(fundSources, id, amount)
  /\ phase' = "update"
  /\ UNCHANGED nextSourceId
  /\ UNCHANGED ledgerRest

\* AppContext.deleteFundSource(id) on the ledger alone.
ledgerDeleteFundSource(id) ==
  /\ fundSources' = SelectSeq(fundSources, LAMBDA src : src.id # id)
  /\ phase' = "delete"
  /\ UNCHANGED nextSourceId
  /\ UNCHANGED ledgerRest

\* AppContext.resetFundSources()
ledgerResetFundSources ==
  /\ nextSourceId <= MaxLedgerId
  /\ fundSources' = resetFundSources(nextSourceId)
  /\ nextSourceId' = nextSourceId + 1
  /\ phase' = "reset"
  /\ UNCHANGED ledgerRest

\* AppContext.updateAvailableFunds(amount) on the ledger alone.
ledgerUpdateAvailableFunds(amount) ==
  /\ Len(fundSources) = 0 => nextSourceId <= MaxLedgerId
  /\ fundSources' = updateAvailableFunds(amount)
  /\ nextSourceId' = IF Len(fundSources) = 0 THEN nextSourceId + 1
                     ELSE nextSourceId
  /\ phase' = "available"
  /\ UNCHANGED ledgerRest

\* AllocationPage.handleSourceAmountChange(sourceId, value)
handleSourceAmountChange(sourceId, value) ==
  /\ HasSource(sourceId)
  /\ fundSources' =
       IF value.empty THEN WithAmount(fundSources, sourceId, 0)
       ELSE IF ValidAmount(value.amount)
            THEN WithAmount(fundSources, sourceId, value.amount)
            ELSE fundSources
  /\ phase' = "change"
  /\ UNCHANGED nextSourceId
  /\ UNCHANGED ledgerRest

\* AllocationPage.handleSourceAmountBlur(source)
handleSourceAmountBlur(sourceId, value) ==
  /\ HasSource(sourceId)
  /\ fundSources' =
       IF value.empty THEN WithAmount(fundSources, sourceId, 0)
       ELSE IF ValidAmount(value.amount)
            THEN WithAmount(fundSources, sourceId, value.amount)
            ELSE WithAmount(fundSources, sourceId, OrZero(SourceOf(sourceId).amount))
  /\ phase' = "blur"
  /\ UNCHANGED nextSourceId
  /\ UNCHANGED ledgerRest

\* AllocationPage.handleDeleteSource(id), behind the button that is rendered
\* while the ledger holds more than one source.
handleDeleteSource(id) ==
  /\ Len(fundSources) > 1
  /\ HasSource(id)
  /\ fundSources' = SelectSeq(fundSources, LAMBDA src : src.id # id)
  /\ phase' = "deleteRow"
  /\ UNCHANGED nextSourceId
  /\ UNCHANGED ledgerRest

\* AllocationPage.handleReset: resetFundSources(), whose return value goes
\* into newSourceIds, updateAllocations([]) and the page's own resets.
handleReset ==
  /\ nextSourceId <= MaxLedgerId
  /\ fundSources' = resetFundSources(nextSourceId)
  /\ nextSourceId' = nextSourceId + 1
  /\ allocations' = <<>>
  /\ manualAllocations' = NoManual
  /\ newSourceIds' = <<nextSourceId>>
  /\ phase' = "resetPage"
  /\ UNCHANGED <<accounts, outgoings, payCycle, today, nextAccountId, runs,
                 lastRun, hung, outgoing, startDate, endDate, now, hookOcc,
                 pageOcc, sidebarAmt, allocPageAmt, allocPageNeeded,
                 contextRequired, nextOcc, timer, renderedSources>>

NextLedger ==
  \/ \E amount \in LedgerAmounts : ledgerAddFundSource(amount)
  \/ \E id \in 1..MaxLedgerId, amount \in LedgerAmounts :
       ledgerUpdateFundSource(id, amount)
  \/ \E id \in 1..MaxLedgerId : ledgerDeleteFundSource(id)
  \/ ledgerResetFundSources
  \/ \E amount \in AvailableAmounts : ledgerUpdateAvailableFunds(amount)
  \/ \E id \in 1..MaxLedgerId, value \in Inputs : handleSourceAmountChange(id, value)
  \/ \E id \in 1..MaxLedgerId, value \in Inputs : handleSourceAmountBlur(id, value)
  \/ \E id \in 1..MaxLedgerId : handleDeleteSource(id)
  \/ handleReset

SpecLedger == InitLedger /\ [][NextLedger]_vars

\* ------------------------------------------------- claims: the ledger ---

\* The amounts of the sources in the ledger, added up from the last to the
\* first.
RECURSIVE AmountsUpTo(_)
AmountsUpTo(n) ==
  IF n = 0 THEN 0 ELSE NumAdd(AmountsUpTo(n - 1), fundSources[n].amount)

\* C18. Ledger total consistency: after any sequence of addFundSource,
\* updateFundSource, deleteFundSource, resetFundSources and
\* updateAvailableFunds, totalFunds equals the sum of the amounts of the
\* sources currently in the ledger.
C18_TotalIsSumOfSources == totalFunds = AmountsUpTo(Len(fundSources))

\* Two sources, one of them negative, after an operation of the ledger.
C18_Witness ==
  /\ phase \in {"add", "update", "delete", "reset", "available"}
  /\ Len(fundSources) = 2
  /\ fundSources[1].amount = 2500
  /\ fundSources[2].amount = -500
  /\ totalFunds = 2000

\* C19. Ledger amounts are never negative or NaN: after any sequence of ledger
\* operations with arbitrary numeric arguments every source amount is a
\* number >= 0 and so is the total.
C19_AmountsNeverNegativeOrNaN ==
  /\ \A i \in 1..Len(fundSources) : ValidAmount(fundSources[i].amount)
  /\ ValidAmount(totalFunds)

\* C20 as stated: from the initial load onward the ledger holds at least one
\* fund source.
C20_NeverEmpty == fundSources # <<>>

\* C20. resetFundSources always leaves exactly one source, of amount 0;
\* addFundSource and updateAvailableFunds leave at least one source; and a
\* ledger that holds sources loses them all only when deleteFundSource
\* removes its single source.
C20_OnlyDeleteEmpties ==
  [][/\ phase' = "reset" =>
          Len(fundSources') = 1 /\ fundSources'[1].amount = 0
     /\ phase' \in {"add", "available"} => fundSources' # <<>>
     /\ fundSources # <<>> /\ fundSources' = <<>> =>
          phase' = "delete" /\ Len(fundSources) = 1]_vars

\* A reset of a ledger that has seen other sources before.
C20_Witness ==
  /\ phase = "reset"
  /\ nextSourceId > 2
  /\ Len(fundSources) = 1
  /\ fundSources[1].amount = 0

\* C21. resetFundSources replaces the whole ledger: whatever the ledger held,
\* after it runs the ledger holds exactly one source, of amount 0 and with an
\* id no source of the ledger had, the total is 0, and the value returned
\* (which handleReset stores in newSourceIds) is that source's id.
C21_ResetReplacesLedger ==
  [][phase' \in {"reset", "resetPage"} =>
       /\ Len(fundSources') = 1
       /\ fundSources'[1].amount = 0
       /\ \A i \in 1..Len(fundSources) : fundSources[i].id # fundSources'[1].id
       /\ SumSources(fundSources') = 0
       /\ phase' = "resetPage" => newSourceIds' = <<fundSources'[1].id>>]_vars

\* The page's reset after three other sources have been created.
C21_Witness ==
  /\ phase = "resetPage"
  /\ nextSourceId > 3
  /\ Len(fundSources) = 1
  /\ newSourceIds = <<fundSources[1].id>>
  /\ allocations = <<>>

\* ------------------------------------------------ claims: the entities ---

Referenced(id) == \E i \in 1..Len(outgoings) : outgoings[i].accountId = id

\* C22. Account deletion preserves referential integrity: an account that an
\* outgoing references is never removed; a step that removes an account
\* removes exactly one, which no outgoing references, and leaves outgoings
\* and allocations as they were; and no outgoing is left with an accountId
\* that is not in the account list.
C22_DeleteKeepsReferences ==
  [][/\ \A id \in Range(accounts) : Referenced(id) => id \in Range(accounts')
     /\ Len(accounts') < Len(accounts) =>
          \E id \in Range(accounts) :
            /\ ~Referenced(id)
            /\ accounts' = SelectSeq(accounts, LAMBDA a : a # id)
            /\ outgoings' = outgoings
            /\ allocations' = allocations
     /\ \A i \in 1..Len(outgoings') :
          outgoings'[i].accountId \in Range(accounts')]_vars

\* The first of two accounts has been deleted while the second one still
\* has an outgoing.
C22_Witness ==
  /\ accounts = <<2>>
  /\ outgoings # <<>>
  /\ \A i \in 1..Len(outgoings) : outgoings[i].accountId = 2

\* What a run on the current funds, accounts and outgoings would store.
FreshRun ==
  Allocate(accounts, outgoings, RunPeriod.startDate, RunPeriod.endDate, today,
           totalFunds, runs + 1)

\* No recomputation is outstanding: a run has just completed, or the account
\* list is empty and the recompute effect schedules nothing.
Recomputed == ~hung /\ (lastRun.valid \/ accounts = <<>>)

\* C23. Allocations are always a full fresh replacement: once the
\* recomputation that follows a change has run, the stored records carry the
\* (accountId, amount) pairs of a fresh run on the current funds, accounts and
\* outgoings, and none of them belongs to an account that no longer exists,
\* also after the last account has been deleted.
C23_FreshReplacement ==
  Recomputed =>
    /\ Pairs(allocations) = Pairs(FreshRun.allocations)
    /\ \A i \in 1..Len(allocations) :
         allocations[i].accountId \in Range(accounts)

\* ------------------------------------------ claims: the consumers agree ---

\* Every consumer's call returned.
AllReturned ==
  /\ Expanded
  /\ ~hookOcc.hang /\ ~sidebarAmt.hang /\ ~allocPageAmt.hang
  /\ ~allocPageNeeded.hang

\* C24. All consumers agree on the required amount: for an account holding
\* the outgoing (paused or not, with or without a payment plan, named or
\* custom cadence) the need the allocator computes equals the 'needed' figure
\* of the allocation page, the page's 'Required for Pay Period' and the
\* sidebar's 'Required'.
C24_ConsumersAgree ==
  AllReturned =>
    /\ allocPageNeeded.amount = SumAmounts(hookOcc.occ)
    /\ allocPageAmt.amount = SumAmounts(hookOcc.occ)
    /\ sidebarAmt.amount = SumAmounts(hookOcc.occ)

\* ------------------------------------- every recurrence of the data model ---

DailyOutgoings ==
  { Named(1, 2000, d, "daily", p, NoPlan) : d \in DueDates, p \in BOOLEAN }

\* Every RecurrenceType and every custom unit, without payment plans.
RecurrenceOutgoings == NamedOutgoings \cup DailyOutgoings \cup CustomOutgoings

Daily(o) == ~o.isCustomRecurrence /\ o.recurrence = "daily"

InitRecurrences ==
  /\ AppInit
  /\ outgoing \in RecurrenceOutgoings
  /\ \E w \in (IF Daily(outgoing) THEN JanuaryWindows ELSE WindowsOf(outgoing)) :
       startDate = w.startDate /\ endDate = w.endDate
  /\ now \in (IF Daily(outgoing) THEN Nows \ {LateNow} ELSE Clocks(outgoing))
  /\ phase = "input"
  /\ NoResults

SpecRecurrences == InitRecurrences /\ [][NextExpand]_vars

\* C25. The occurrence expanders and getNextOccurrence terminate for every
\* recurrence value of the data model, every due date, every current date
\* and every window, a window that starts after the outgoing's next
\* occurrence included.
C25_ExpandersTerminate ==
  Expanded => nextOcc # Hang /\ ~hookOcc.hang /\ ~pageOcc.hang

\* ------------------------------------- claims: updateAvailableFunds ---

\* Every amount in the ledger is a number >= 0.
LedgerValid == \A i \in 1..Len(fundSources) : ValidAmount(fundSources[i].amount)

\* The step created the only source of an empty ledger, or changed at most
\* the amount of the first source, and left no negative amount.
OnlyFirstTouched ==
  /\ Len(fundSources) = 0 => Len(fundSources') = 1
  /\ Len(fundSources) > 0 =>
       /\ Len(fundSources') = Len(fundSources)
       /\ fundSources'[1].id = fundSources[1].id
       /\ \A i \in 2..Len(fundSources) : fundSources'[i] = fundSources[i]
  /\ \A i \in 1..Len(fundSources') : ValidAmount(fundSources'[i].amount)

\* C28. After updateAvailableFunds(amount) with amount >= 0, on a ledger of
\* non-negative amounts with zero, one or two sources, the amounts add up to
\* amount, at most the first source changed (or the only source of an empty
\* ledger was created) and no amount is negative.
C28_TotalMatches ==
  [][phase' = "available" /\ LedgerValid =>
       \A amount \in AvailableAmounts :
         ValidAmount(amount) /\ fundSources' = updateAvailableFunds(amount) =>
           /\ OnlyFirstTouched
           /\ SumSources(fundSources') = amount]_vars

\* --------------------------------------- claims: the end of the period ---

\* The outgoings timeline of the pay period: the page's occurrences passed
\* through its filter.
Timeline == payPeriodOccurrences(pageOcc.occ, startDate, endDate)

\* The allocator counted an occurrence dated on the period's last day, and
\* the required-funds figures carry the allocator's sum.
CountedOnEndDate ==
  /\ AllReturned /\ ~pageOcc.hang
  /\ \E i \in 1..Len(hookOcc.occ) : hookOcc.occ[i].date = endDate
  /\ allocPageNeeded.amount = SumAmounts(hookOcc.occ)
  /\ allocPageAmt.amount = SumAmounts(hookOcc.occ)
  /\ sidebarAmt.amount = SumAmounts(hookOcc.occ)

\* C27. The pay period's end date is inclusive for every consumer: an
\* occurrence dated exactly on endDate that is counted in the required-funds
\* figure and in the allocator's per-account need is also listed in the
\* outgoings timeline of that pay period.
C27_EndDateInclusive ==
  CountedOnEndDate =>
    \E j \in 1..Len(Timeline) : Timeline[j].date = endDate

\* ------------------------------------------- the allocation page mounted ---

MaxPageRuns == 3

\* The largest manual allocation, either side of 0, the page is followed to.
MaxManual == 10000

\* The amounts typed into the page's fund source row.
PageFunds == {0, 3000, 9000}

\* The positions the manual-allocation slider is dragged to.
PageManualValues == {0, 1000, 5000}

\* The weekly outgoing of 20.00, held by account 1.
PageOutgoing == [Templates[1] EXCEPT !.accountId = 1]

\* AllocationPage: unallocatedFunds = totalFunds - totalAllocated
unallocatedFunds == NumSub(totalFunds, totalAllocated)

\* manualAllocations[accountId] || 0
ManualOf(accountId) ==
  IF accountId \in DOMAIN manualAllocations THEN manualAllocations[accountId]
  ELSE 0

\* Object.values(manualAllocations).reduce((sum, amount) => sum + amount, 0)
ManualTotal(m) ==
  LET RECURSIVE Sum(_)
      Sum(ids) == IF ids = {} THEN 0
                  ELSE LET a == CHOOSE x \in ids : TRUE
                       IN  m[a] + Sum(ids \ {a})
  IN  Sum(DOMAIN m)

totalManuallyAllocated == ManualTotal(manualAllocations)

\* AllocationPage: remainingForPayPeriod, which the manual sliders are
\* rendered under.
remainingForPayPeriod ==
  NumSub(totalFunds,
         totalRequiredForPayPeriod(outgoings, RunPeriod.startDate,
                                   RunPeriod.endDate, today).amount)

\* { ...prev, [accountId]: value }
WithManual(accountId, value) ==
  [a \in DOMAIN manualAllocations \cup {accountId} |->
     IF a = accountId THEN value ELSE manualAllocations[a]]

\* The value handleManualAllocationChange stores for the account.
CappedManual(accountId, value) ==
  LET currentTotal == totalManuallyAllocated
      currentAccountAmount == ManualOf(accountId)
      change == value - currentAccountAmount
  IN  IF currentTotal + change > unallocatedFunds
      THEN MathMax(0, unallocatedFunds - (currentTotal - currentAccountAmount))
      ELSE value

\* A manual allocation within the range the page is followed to.
ManualInRange(value) == value >= -MaxManual /\ value <= MaxManual

\* The effects of the render that follows a state change: manual allocations
\* are reset when unallocatedFunds has changed to 0, and the recompute effect,
\* one of whose dependencies is the updateFundsAndAllocations closure made anew
\* by every render, clears its timeout and, with an account, sets a new one.
RenderEffects(manual) ==
  /\ manualAllocations' =
       IF NumSub(SumSources(fundSources'), SumAmounts(allocations')) = 0
          /\ unallocatedFunds # 0
       THEN NoManual ELSE manual
  /\ timer' = (Len(accounts') > 0)

pageRest ==
  <<payCycle, today, nextAccountId, outgoing, startDate, endDate, now, hookOcc,
    pageOcc, sidebarAmt, allocPageAmt, allocPageNeeded, contextRequired,
    nextOcc, newSourceIds, renderedSources>>

\* The page's first render over a stored state: one fund source, one or two
\* accounts, the outgoing or none, no allocation stored; the mount has run the
\* recompute effect.
InitPage ==
  /\ accounts \in {<<1>>, <<1, 2>>}
  /\ outgoings \in {<<>>, <<PageOutgoing>>}
  /\ \E amount \in PageFunds : fundSources = <<[id |-> 1, amount |-> amount]>>
  /\ nextSourceId = 2
  /\ allocations = <<>>
  /\ payCycle = DefaultPayCycle
  /\ today = Today0
  /\ nextAccountId = 3
  /\ runs = 0
  /\ lastRun = NoRun
  /\ hung = FALSE
  /\ outgoing = EmptyOutgoing
  /\ startDate = 0
  /\ endDate = 0
  /\ now = 0
  /\ phase = "mount"
  /\ NoResults
  /\ newSourceIds = <<>>
  /\ manualAllocations = NoManual
  /\ timer = TRUE
  /\ renderedSources = <<>>

\* The user edits the amount of a fund source and leaves the field.
pageSourceAmountBlur(sourceId, amount) ==
  /\ HasSource(sourceId)
  /\ fundSources' = WithAmount(fundSources, sourceId, amount)
  /\ phase' = "edit"
  /\ UNCHANGED <<accounts, outgoings, allocations, nextSourceId, runs, lastRun,
                 hung>>
  /\ UNCHANGED pageRest
  /\ RenderEffects(manualAllocations)

\* The slider of an account: a value between min="0" and max={unallocatedFunds}.
pageManualSlider(accountId, value) ==
  /\ remainingForPayPeriod > 0
  /\ accountId \in Range(accounts)
  /\ value <= MathMax(0, unallocatedFunds)
  /\ ManualInRange(CappedManual(accountId, value))
  /\ phase' = "manual"
  /\ UNCHANGED <<accounts, outgoings, fundSources, allocations, nextSourceId,
                 runs, lastRun, hung>>
  /\ UNCHANGED pageRest
  /\ RenderEffects(WithManual(accountId, CappedManual(accountId, value)))

\* The Max button of an account.
pageManualMax(accountId) ==
  /\ remainingForPayPeriod > 0
  /\ accountId \in Range(accounts)
  /\ ManualInRange(
       CappedManual(accountId,
         (unallocatedFunds - totalManuallyAllocated) + ManualOf(accountId)))
  /\ phase' = "max"
  /\ UNCHANGED <<accounts, outgoings, fundSources, allocations, nextSourceId,
                 runs, lastRun, hung>>
  /\ UNCHANGED pageRest
  /\ RenderEffects(
       WithManual(accountId,
         CappedManual(accountId,
           (unallocatedFunds - totalManuallyAllocated) + ManualOf(accountId))))

\* AllocationPage.handleResetManualAllocations, behind the button rendered
\* while something is manually allocated.
handleResetManualAllocations ==
  /\ remainingForPayPeriod > 0
  /\ totalManuallyAllocated > 0
  /\ phase' = "resetManual"
  /\ UNCHANGED <<accounts, outgoings, fundSources, allocations, nextSourceId,
                 runs, lastRun, hung>>
  /\ UNCHANGED pageRest
  /\ RenderEffects(NoManual)

\* The timeout of the recompute effect fires: updateFundsAndAllocations on
\* the rendered totalFunds, and the render that its two state updates cause.
pageTimerFires ==
  /\ timer
  /\ ~hung
  /\ runs < MaxPageRuns
  /\ ~runAllocation(RunPeriod, totalFunds).hang
  /\ fundSources' = updateAvailableFunds(totalFunds)
  /\ allocations' = runAllocation(RunPeriod, totalFunds).allocations
  /\ runs' = runs + 1
  /\ phase' = "run"
  /\ UNCHANGED <<accounts, outgoings, nextSourceId, lastRun, hung>>
  /\ UNCHANGED pageRest
  /\ RenderEffects(manualAllocations)

\* deleteAccount from the page's context: refused for an account that an
\* outgoing references.
pageDeleteAccount(id) ==
  /\ id \in Range(accounts)
  /\ ~Referenced(id)
  /\ accounts' = SelectSeq(accounts, LAMBDA a : a # id)
  /\ phase' = "deleteAccount"
  /\ UNCHANGED <<outgoings, fundSources, allocations, nextSourceId, runs,
                 lastRun, hung>>
  /\ UNCHANGED pageRest
  /\ RenderEffects(manualAllocations)

NextPage ==
  \/ \E amount \in PageFunds : pageSourceAmountBlur(1, amount)
  \/ \E accountId \in 1..MaxAccountId, value \in PageManualValues :
       pageManualSlider(accountId, value)
  \/ \E accountId \in 1..MaxAccountId : pageManualMax(accountId)
  \/ handleResetManualAllocations
  \/ pageTimerFires
  \/ \E id \in 1..MaxAccountId : pageDeleteAccount(id)

SpecPage == InitPage /\ [][NextPage]_vars

\* ------------------------------------------------ claims: quiescence ---

\* C26. Recomputation quiesces: with the allocation page mounted and at least
\* one account, a run whose result has the same (accountId, amount) pairs as
\* the stored allocations does not schedule another run, so that after the
\* last user edit finitely many runs are performed.
C26_SameResultStops ==
  [][phase' = "run" /\ Len(accounts) > 0
       /\ Pairs(allocations') = Pairs(allocations) => ~timer']_vars

\* -------------------------------------- claims: the manual distribution ---

\* C29. Manual distribution never exceeds the unallocated funds: in every
\* state of the mounted page every manual allocation is >= 0 and the manual
\* allocations add up to at most totalFunds - totalAllocated.
C29_ManualWithinUnallocated ==
  /\ \A a \in DOMAIN manualAllocations : manualAllocations[a] >= 0
  /\ totalManuallyAllocated <= unallocatedFunds

\* --------------------------------------------- the ledger within a turn ---

\* updateAvailableFunds(amount) computed from the sources a closure holds.
AvailableFundsOn(sources, id, amount) ==
  IF Len(sources) = 0
  THEN <<[id |-> id, amount |-> amount]>>
  ELSE IF Len(sources) = 1
  THEN <<[sources[1] EXCEPT !.amount = amount]>>
  ELSE LET currentTotal == SumSources(sources)
           firstSourceAmount == sources[1].amount
           adjustment == NumSub(amount, currentTotal)
           newAmount == MathMax(0, NumAdd(firstSourceAmount, adjustment))
       IN  <<[sources[1] EXCEPT !.amount = newAmount]>> \o Tail(sources)

\* fundSources.filter(source => source.id !== id)
WithoutSource(sources, id) == SelectSeq(sources, LAMBDA src : src.id # id)

turnRest ==
  <<accounts, outgoings, allocations, payCycle, today, nextAccountId, runs,
    lastRun, hung, outgoing, startDate, endDate, now, hookOcc, pageOcc,
    sidebarAmt, allocPageAmt, allocPageNeeded, contextRequired, nextOcc,
    newSourceIds, manualAllocations, timer>>

\* AppProvider's first render: the handlers close over the stored sources.
InitTurn ==
  /\ InitLedger
  /\ renderedSources = fundSources

\* AppContext.addFundSource(amount): setFundSources([...fundSources, source])
\* with the fundSources of the render the handler was made in.
turnAddFundSource(amount) ==
  /\ Len(renderedSources) < MaxLedgerSources
  /\ nextSourceId <= MaxLedgerId
  /\ fundSources' = Append(renderedSources, [id |-> nextSourceId, amount |-> amount])
  /\ nextSourceId' = nextSourceId + 1
  /\ phase' = "add"
  /\ UNCHANGED renderedSources
  /\ UNCHANGED turnRest

\* AppContext.updateFundSource(updatedSource) within the turn.
turnUpdateFundSource(id, amount) ==
  /\ fundSources' = WithAmount(renderedSources, id, amount)
  /\ phase' = "update"
  /\ UNCHANGED <<nextSourceId, renderedSources>>
  /\ UNCHANGED turnRest

\* AppContext.deleteFundSource(id) within the turn.
turnDeleteFundSource(id) ==
  /\ fundSources' = WithoutSource(renderedSources, id)
  /\ phase' = "delete"
  /\ UNCHANGED <<nextSourceId, renderedSources>>
  /\ UNCHANGED turnRest

\* AppContext.updateAvailableFunds(amount) within the turn.
turnUpdateAvailableFunds(amount) ==
  /\ Len(renderedSources) = 0 => nextSourceId <= MaxLedgerId
  /\ fundSources' = AvailableFundsOn(renderedSources, nextSourceId, amount)
  /\ nextSourceId' = IF Len(renderedSources) = 0 THEN nextSourceId + 1
                     ELSE nextSourceId
  /\ phase' = "available"
  /\ UNCHANGED renderedSources
  /\ UNCHANGED turnRest

\* The turn ends: AppProvider renders with the stored sources and the
\* handlers are made anew.
render ==
  /\ renderedSources # fundSources
  /\ renderedSources' = fundSources
  /\ phase' = "render"
  /\ UNCHANGED <<fundSources, nextSourceId>>
  /\ UNCHANGED turnRest

NextTurn ==
  \/ \E amount \in LedgerAmounts : turnAddFundSource(amount)
  \/ \E id \in 1..MaxLedgerId, amount \in LedgerAmounts :
       turnUpdateFundSource(id, amount)
  \/ \E id \in 1..MaxLedgerId : turnDeleteFundSource(id)
  \/ \E amount \in AvailableAmounts : turnUpdateAvailableFunds(amount)
  \/ render

SpecTurn == InitTurn /\ [][NextTurn]_vars

\* ------------------------------------------------ claims: lost updates ---

\* C30. No ledger update is lost: a ledger operation issued before the state
\* is rendered again leaves the ledger that the operation makes of the ledger
\* the previous operation left, so that the operations of a turn are all
\* applied, in issue order.
C30_NoUpdateLost ==
  [][/\ phase' = "add" =>
          \E amount \in LedgerAmounts :
            fundSources' =
              Append(fundSources, [id |-> nextSourceId, amount |-> amount])
     /\ phase' = "update" =>
          \E id \in 1..MaxLedgerId, amount \in LedgerAmounts :
            fundSources' = WithAmount(fundSources, id, amount)
     /\ phase' = "delete" =>
          \E id \in 1..MaxLedgerId : fundSources' = WithoutSource(fundSources, id)
     /\ phase' = "available" =>
          \E amount \in AvailableAmounts :
            fundSources' = AvailableFundsOn(fundSources, nextSourceId, amount)]_vars

====
